---- MODULE Spec2Model ----
(***************************************************************************)
(* Wishlist / one-time QR-token service (complex-shopify-service).         *)
(*                                                                         *)
(* The store (tables wishlists, wishlist_items, idempotency) is the only   *)
(* shared state.  Every HTTP handler is an async function: the code        *)
(* between two awaited store accesses runs without interruption, and the   *)
(* handlers of concurrent requests interleave at the awaited accesses.     *)
(* One action of the model is therefore one awaited store access of one    *)
(* request together with the synchronous code that follows it, up to the   *)
(* next await or the response.                                             *)
(***************************************************************************)
EXTENDS Integers, Sequences, FiniteSets, Bags, TLC

\* ------------------------------------------------------------------ bounds
\* requests per scenario, wishlists per creation scenario, clock range, and
\* the configured WISHLIST_EXPIRATION_HOURS
MaxRequests == 3
MaxRedeemRequests == 4
MaxSettleRequests == 4
MaxPosRequests == 2
MaxWishlists == 2
MaxTime == 3
WishlistExpirationHours == 1

\* --------------------------------------------------------------- constants
Null == 0

OK == 200
CREATED == 201
BAD_REQUEST == 400
UNAUTHORIZED == 401
FORBIDDEN == 403
NOT_FOUND == 404
CONFLICT == 409
GONE == 410
INTERNAL_SERVER_ERROR == 500

Users == {1, 2}
Tokens == {1, 2}
Keys == {1}

\* ------------------------------------------------------------ store rows
EmptyMeta == [custom |-> Null, shopify_order_id |-> Null, cancellation_reason |-> Null]

NoRow ==
  [user_id |-> Null, status |-> "NONE", source |-> "NONE", qr_code_token |-> Null,
   qr_code_used_at |-> Null, processed_at |-> Null, processed_by |-> "",
   expires_at |-> Null, metadata |-> EmptyMeta]

\* request payload: the items property of the body
NoItems == [isArray |-> FALSE, elems |-> << >>]
ItemsOf(s) == [isArray |-> TRUE, elems |-> s]

ItemA == [variant_id |-> 1, quantity |-> 2, title |-> 1]
ItemB == [variant_id |-> 2, quantity |-> 0, title |-> 1]
ItemNoVariant == [variant_id |-> Null, quantity |-> 1, title |-> 1]
ItemNoTitle == [variant_id |-> 2, quantity |-> 1, title |-> Null]

\* --------------------------------------------------------------- responses
NoBody ==
  [error |-> "", wishlist_id |-> Null, wishlist |-> NoRow, items |-> EmptyBag,
   qr_code_token |-> Null, used_at |-> Null, expired_at |-> Null,
   status |-> "", qr_code_used |-> FALSE, processed |-> FALSE, expired |-> FALSE]

NoResp == [code |-> 0, body |-> NoBody]

NoIdem == [status |-> "NONE", wishlist_id |-> Null, response_data |-> NoBody]

ErrorResp(code, msg) == [code |-> code, body |-> [NoBody EXCEPT !.error = msg]]

\* next(error) and the error-handling middleware: err.statusCode || 500; the
\* errors of the store and a TypeError carry no statusCode
ErrorHandler(name, statusCode) ==
  ErrorResp(IF statusCode # Null THEN statusCode ELSE INTERNAL_SERVER_ERROR, name)

UniqueConstraintError == ErrorHandler("SequelizeUniqueConstraintError", Null)
ValidationError == ErrorHandler("SequelizeValidationError", Null)

WishlistResp(code, wid, row, its) ==
  [code |-> code,
   body |-> [NoBody EXCEPT !.wishlist_id = wid, !.wishlist = row, !.items = its]]

BaseRequest ==
  [op |-> "", pc |-> "done", wishlistId |-> Null, user_id |-> Null, qr_token |-> Null,
   key |-> Null, items |-> NoItems, metadata |-> Null, reason |-> Null,
   processed_by |-> "", shopify_order_id |-> Null, source |-> "KIOSK",
   target |-> Null, snap |-> NoRow, tval |-> Null, token |-> Null,
   meta |-> EmptyMeta, pending |-> EmptyBag, rejected |-> FALSE, resp |-> NoResp,
   after |-> {}, first |-> FALSE,
   route |-> "", posSecret |-> Null, production |-> FALSE,
   x_pos_secret |-> Null, x_pos_token |-> Null]

VARIABLES now, wishlists, items, idempotency, requests

vars == <<now, wishlists, items, idempotency, requests>>

\* ------------------------------------------------------------ store access
Exists(wid) == wid \in DOMAIN wishlists

\* Wishlist.findByPk(wishlistId)
FindByPk(wid) == IF Exists(wid) THEN wishlists[wid] ELSE NoRow

\* Wishlist.findOne({ where: { wishlist_id, user_id } })
FindOwnedByAnyone(wid, user) == IF Exists(wid) THEN wishlists[wid] ELSE NoRow

FindOwned(wid, user) ==
  IF Exists(wid) /\ wishlists[wid].user_id = user THEN wishlists[wid] ELSE NoRow

\* include: [{ model: WishlistItem, as: 'items' }]
ItemsOfWishlist(wid) == IF wid \in DOMAIN items THEN items[wid] ELSE EmptyBag

\* Wishlist.findOne({ where: { qr_code_token } }); 0 when no row has the token
FindIdByToken(tok) ==
  IF \E w \in DOMAIN wishlists : wishlists[w].qr_code_token = tok
  THEN CHOOSE w \in DOMAIN wishlists : wishlists[w].qr_code_token = tok
  ELSE Null

\* instance.update(values): the UPDATE statement carries every field of values,
\* changed or not, and no other field, and is keyed by primary key; snap is
\* the instance that was read
InstanceUpdate(stored, snap, vals) ==
  [f \in DOMAIN stored |-> IF f \in DOMAIN vals THEN vals[f] ELSE stored[f]]

\* new Date() > new Date(wishlist.expires_at)
IsExpiredReversed(row, t) == t < row.expires_at

IsExpired(row, t) == t > row.expires_at

Finish(r, resp) ==
  requests' = [requests EXCEPT ![r].pc = "done", ![r].resp = resp]

\* a response has been sent
Responded(r) == requests[r].resp.code # 0

\* a new request; after records the requests answered before it arrived
Begin(req) ==
  requests' = Append(requests,
                 [req EXCEPT !.after = {q \in DOMAIN requests : Responded(q)}])

Running(r, op, pc) ==
  /\ r \in DOMAIN requests
  /\ requests[r].op = op
  /\ requests[r].pc = pc

\* ------------------------------------------------- POS: fetchWishlist
\* the values of the UPDATE that marks the QR code as used
MarkUsedValuesWithoutStatus(t) == [qr_code_used_at |-> t]

\* the UPDATE of the status alone
MarkUsedValuesStatusOnly(t) == [status |-> "PROCESSING"]

MarkUsedValues(t) == [qr_code_used_at |-> t, status |-> "PROCESSING"]

ExpiredValuesCancelled == [status |-> "CANCELLED"]

\* the expiration also withdraws the token
ExpiredValuesClearingToken == [status |-> "EXPIRED", qr_code_token |-> Null]

ExpiredValues == [status |-> "EXPIRED"]

\* the status check placed before the expiry check
FetchWishlistStatusFirst(wishlistId, qr_token) ==
  LET req == [BaseRequest EXCEPT !.op = "fetchWishlist", !.wishlistId = wishlistId,
                                 !.qr_token = qr_token, !.target = wishlistId]
      w == FindByPk(wishlistId)
  IN /\ Begin(
          IF qr_token = Null
            THEN [req EXCEPT !.resp = ErrorResp(BAD_REQUEST, "qr_token is required")]
          ELSE IF w = NoRow
            THEN [req EXCEPT !.resp = ErrorResp(NOT_FOUND, "Wishlist not found")]
          ELSE IF w.qr_code_token # qr_token
            THEN [req EXCEPT !.resp = ErrorResp(FORBIDDEN, "Invalid QR code token")]
          ELSE IF w.qr_code_used_at # Null
            THEN [req EXCEPT !.resp =
                    [code |-> CONFLICT,
                     body |-> [NoBody EXCEPT !.error = "QR code has already been used",
                                             !.used_at = w.qr_code_used_at]]]
          ELSE IF w.status # "ACTIVE"
            THEN [req EXCEPT !.resp = ErrorResp(BAD_REQUEST, "cannot be processed")]
          ELSE IF IsExpired(w, now)
            THEN [req EXCEPT !.pc = "expire", !.snap = w]
          ELSE [req EXCEPT !.pc = "mark", !.snap = w, !.tval = now])
     /\ UNCHANGED <<now, wishlists, items, idempotency>>

\* POST /api/pos/wishlists/:wishlistId/fetch, up to the end of the checks that
\* follow the first findByPk
FetchWishlist(wishlistId, qr_token) ==
  LET req == [BaseRequest EXCEPT !.op = "fetchWishlist", !.wishlistId = wishlistId,
                                 !.qr_token = qr_token, !.target = wishlistId]
      w == FindByPk(wishlistId)
  IN /\ Begin(
          IF qr_token = Null
            THEN [req EXCEPT !.resp = ErrorResp(BAD_REQUEST, "qr_token is required")]
          ELSE IF w = NoRow
            THEN [req EXCEPT !.resp = ErrorResp(NOT_FOUND, "Wishlist not found")]
          ELSE IF w.qr_code_token # qr_token
            THEN [req EXCEPT !.resp = ErrorResp(FORBIDDEN, "Invalid QR code token")]
          ELSE IF w.qr_code_used_at # Null
            THEN [req EXCEPT !.resp =
                    [code |-> CONFLICT,
                     body |-> [NoBody EXCEPT !.error = "QR code has already been used",
                                             !.used_at = w.qr_code_used_at]]]
          ELSE IF IsExpired(w, now)
            THEN [req EXCEPT !.pc = "expire", !.snap = w]
          ELSE IF w.status # "ACTIVE"
            THEN [req EXCEPT !.resp = ErrorResp(BAD_REQUEST, "cannot be processed")]
          ELSE [req EXCEPT !.pc = "mark", !.snap = w, !.tval = now])
     /\ UNCHANGED <<now, wishlists, items, idempotency>>

\* await wishlist.update({ status: 'EXPIRED' }); 410
FetchWishlistExpire(r) ==
  /\ Running(r, "fetchWishlist", "expire")
  /\ LET wid == requests[r].target
     IN wishlists' = [wishlists EXCEPT ![wid] =
                        InstanceUpdate(@, requests[r].snap, ExpiredValues)]
  /\ Finish(r, [code |-> GONE,
                body |-> [NoBody EXCEPT !.error = "Wishlist has expired",
                                        !.expired_at = requests[r].snap.expires_at]])
  /\ UNCHANGED <<now, items, idempotency>>

\* await wishlist.update({ qr_code_used_at: new Date(), status: 'PROCESSING' })
FetchWishlistMark(r) ==
  /\ Running(r, "fetchWishlist", "mark")
  /\ LET wid == requests[r].target
     IN wishlists' = [wishlists EXCEPT ![wid] =
                        InstanceUpdate(@, requests[r].snap, MarkUsedValues(requests[r].tval))]
  /\ requests' = [requests EXCEPT ![r].pc = "refetch",
                                  ![r].first = (wishlists[requests[r].target].qr_code_used_at = Null)]
  /\ UNCHANGED <<now, items, idempotency>>

\* the second findByPk with the items, and the 200 response
FetchWishlistRefetch(r) ==
  /\ Running(r, "fetchWishlist", "refetch")
  /\ LET wid == requests[r].target
     IN Finish(r, WishlistResp(OK, wid, FindByPk(wid), ItemsOfWishlist(wid)))
  /\ UNCHANGED <<now, wishlists, items, idempotency>>

\* ------------------------------------------------- POS: fetchByQRToken
\* POST /api/pos/wishlists/fetch-by-qr: lookup by token and the checks 2..5
FetchByQRToken(qr_token) ==
  LET wid == FindIdByToken(qr_token)
      req == [BaseRequest EXCEPT !.op = "fetchByQRToken", !.qr_token = qr_token,
                                 !.target = wid]
      w == FindByPk(wid)
  IN /\ Begin(
          IF qr_token = Null
            THEN [req EXCEPT !.resp = ErrorResp(BAD_REQUEST, "qr_token is required")]
          ELSE IF wid = Null
            THEN [req EXCEPT !.resp = ErrorResp(NOT_FOUND, "Wishlist not found")]
          ELSE IF w.qr_code_used_at # Null
            THEN [req EXCEPT !.resp =
                    [code |-> CONFLICT,
                     body |-> [NoBody EXCEPT !.error = "QR code has already been used",
                                             !.used_at = w.qr_code_used_at]]]
          ELSE IF IsExpired(w, now)
            THEN [req EXCEPT !.pc = "expire", !.snap = w]
          ELSE IF w.status # "ACTIVE"
            THEN [req EXCEPT !.resp = ErrorResp(BAD_REQUEST, "cannot be processed")]
          ELSE [req EXCEPT !.pc = "mark", !.snap = w, !.tval = now])
     /\ UNCHANGED <<now, wishlists, items, idempotency>>

\* step 4: persist status = EXPIRED, ExpiredError
FetchByQRTokenExpire(r) ==
  /\ Running(r, "fetchByQRToken", "expire")
  /\ LET wid == requests[r].target
     IN wishlists' = [wishlists EXCEPT ![wid] =
                        InstanceUpdate(@, requests[r].snap, ExpiredValues)]
  /\ Finish(r, [code |-> GONE,
                body |-> [NoBody EXCEPT !.error = "Wishlist has expired",
                                        !.expired_at = requests[r].snap.expires_at]])
  /\ UNCHANGED <<now, items, idempotency>>

\* step 6: one conditional update, SET used_at, status WHERE id = ? AND
\* qr_token_used_at IS NULL AND status = 'ACTIVE'; zero rows affected leads
\* to the re-read
FetchByQRTokenMark(r) ==
  /\ Running(r, "fetchByQRToken", "mark")
  /\ LET wid == requests[r].target
         row == wishlists[wid]
     IN IF row.qr_code_used_at = Null /\ row.status = "ACTIVE"
        THEN /\ wishlists' = [wishlists EXCEPT ![wid] =
                                [f \in DOMAIN row |->
                                   IF f \in DOMAIN MarkUsedValues(requests[r].tval)
                                   THEN MarkUsedValues(requests[r].tval)[f] ELSE row[f]]]
             /\ requests' = [requests EXCEPT ![r].pc = "refetch", ![r].first = TRUE]
        ELSE /\ UNCHANGED wishlists
             /\ requests' = [requests EXCEPT ![r].pc = "reread"]
  /\ UNCHANGED <<now, items, idempotency>>

\* the loser of the conditional update re-reads and reports ConflictError
FetchByQRTokenReread(r) ==
  /\ Running(r, "fetchByQRToken", "reread")
  /\ Finish(r, [code |-> CONFLICT,
                body |-> [NoBody EXCEPT !.error = "QR code has already been used",
                                        !.used_at = wishlists[requests[r].target].qr_code_used_at]])
  /\ UNCHANGED <<now, wishlists, items, idempotency>>

\* success: the wishlist with its items
FetchByQRTokenRefetch(r) ==
  /\ Running(r, "fetchByQRToken", "refetch")
  /\ LET wid == requests[r].target
     IN Finish(r, WishlistResp(OK, wid, FindByPk(wid), ItemsOfWishlist(wid)))
  /\ UNCHANGED <<now, wishlists, items, idempotency>>

\* ------------------------------------------------- POS: completeWishlist
\* const metadata = { ...wishlist.metadata }; if (shopify_order_id) ...
CompleteMetadataReplaced(metadata, shopify_order_id) ==
  [EmptyMeta EXCEPT !.shopify_order_id = shopify_order_id]

CompleteMetadata(metadata, shopify_order_id) ==
  IF shopify_order_id # Null
  THEN [metadata EXCEPT !.shopify_order_id = shopify_order_id]
  ELSE metadata

\* processed_by || 'POS'
ProcessedBy(processed_by) == IF processed_by = "" THEN "POS" ELSE processed_by

\* the completion without its status check
CompleteWishlistAnyStatus(wishlistId, processed_by, shopify_order_id) ==
  LET req == [BaseRequest EXCEPT !.op = "completeWishlist", !.wishlistId = wishlistId,
                                 !.processed_by = processed_by,
                                 !.shopify_order_id = shopify_order_id,
                                 !.target = wishlistId]
      w == FindByPk(wishlistId)
  IN /\ Begin(
          IF w = NoRow
            THEN [req EXCEPT !.resp = ErrorResp(NOT_FOUND, "Wishlist not found")]
          ELSE [req EXCEPT !.pc = "write", !.snap = w, !.tval = now,
                           !.meta = CompleteMetadata(w.metadata, shopify_order_id)])
     /\ UNCHANGED <<now, wishlists, items, idempotency>>

\* POST /api/pos/wishlists/:wishlistId/complete: findByPk and the status check
CompleteWishlist(wishlistId, processed_by, shopify_order_id) ==
  LET req == [BaseRequest EXCEPT !.op = "completeWishlist", !.wishlistId = wishlistId,
                                 !.processed_by = processed_by,
                                 !.shopify_order_id = shopify_order_id,
                                 !.target = wishlistId]
      w == FindByPk(wishlistId)
  IN /\ Begin(
          IF w = NoRow
            THEN [req EXCEPT !.resp = ErrorResp(NOT_FOUND, "Wishlist not found")]
          ELSE IF w.status # "PROCESSING"
            THEN [req EXCEPT !.resp = ErrorResp(BAD_REQUEST, "Cannot complete wishlist")]
          ELSE [req EXCEPT !.pc = "write", !.snap = w, !.tval = now,
                           !.meta = CompleteMetadata(w.metadata, shopify_order_id)])
     /\ UNCHANGED <<now, wishlists, items, idempotency>>

CompletedValues(r) ==
  [status |-> "COMPLETED", processed_at |-> requests[r].tval,
   processed_by |-> ProcessedBy(requests[r].processed_by), metadata |-> requests[r].meta]

\* await wishlist.update({ status: 'COMPLETED', ... }); the response carries
\* the updated instance
CompleteWishlistWrite(r) ==
  /\ Running(r, "completeWishlist", "write")
  /\ LET wid == requests[r].target
     IN /\ wishlists' = [wishlists EXCEPT ![wid] =
                           InstanceUpdate(@, requests[r].snap, CompletedValues(r))]
        /\ Finish(r, WishlistResp(OK, wid,
                       InstanceUpdate(requests[r].snap, requests[r].snap, CompletedValues(r)),
                       EmptyBag))
  /\ UNCHANGED <<now, items, idempotency>>

\* ------------------------------------------------- POS: cancelWishlist
\* const metadata = { ...wishlist.metadata }; if (reason) ...
CancelMetadata(metadata, reason) ==
  IF reason # Null THEN [metadata EXCEPT !.cancellation_reason = reason] ELSE metadata

\* POST /api/pos/wishlists/:wishlistId/cancel: findByPk
PosCancelWishlist(wishlistId, reason) ==
  LET req == [BaseRequest EXCEPT !.op = "posCancelWishlist", !.wishlistId = wishlistId,
                                 !.reason = reason, !.target = wishlistId]
      w == FindByPk(wishlistId)
  IN /\ Begin(
          IF w = NoRow
            THEN [req EXCEPT !.resp = ErrorResp(NOT_FOUND, "Wishlist not found")]
          ELSE [req EXCEPT !.pc = "write", !.snap = w,
                           !.meta = CancelMetadata(w.metadata, reason)])
     /\ UNCHANGED <<now, wishlists, items, idempotency>>

\* await wishlist.update({ status: 'CANCELLED', metadata })
PosCancelWishlistWrite(r) ==
  /\ Running(r, "posCancelWishlist", "write")
  /\ LET wid == requests[r].target
         vals == [status |-> "CANCELLED", metadata |-> requests[r].meta]
     IN /\ wishlists' = [wishlists EXCEPT ![wid] = InstanceUpdate(@, requests[r].snap, vals)]
        /\ Finish(r, WishlistResp(OK, wid,
                       InstanceUpdate(requests[r].snap, requests[r].snap, vals), EmptyBag))
  /\ UNCHANGED <<now, items, idempotency>>

\* ------------------------------------------------- wishlist items
RECURSIVE SeqToBag(_)
SeqToBag(s) == IF s = << >> THEN EmptyBag ELSE SetToBag({Head(s)}) (+) SeqToBag(Tail(s))

\* the attributes handed to WishlistItem.create for one item of the payload;
\* defaultTitle is 'Unknown Product' in the kiosk create and absent elsewhere
ItemRow(item, defaultTitle) ==
  [shopify_variant_id |-> item.variant_id,
   quantity |-> IF item.quantity = 0 THEN 1 ELSE item.quantity,
   product_title |-> IF item.title = Null THEN defaultTitle ELSE item.title]

\* WishlistItem: shopify_variant_id and product_title allowNull: false,
\* quantity validate min: 1
RowAccepted(row) ==
  /\ row.shopify_variant_id # Null
  /\ row.product_title # Null
  /\ row.quantity >= 1

ItemRows(payload, defaultTitle) ==
  [i \in DOMAIN payload.elems |-> ItemRow(payload.elems[i], defaultTitle)]

AcceptedRows(payload, defaultTitle) ==
  SeqToBag(SelectSeq(ItemRows(payload, defaultTitle), RowAccepted))

AnyRejected(payload, defaultTitle) ==
  \E i \in DOMAIN payload.elems : ~RowAccepted(ItemRow(payload.elems[i], defaultTitle))

\* !items || !Array.isArray(items) || items.length === 0
ItemsMissingUnlessEmpty(payload) == ~payload.isArray

ItemsMissing(payload) == ~payload.isArray \/ Len(payload.elems) = 0

\* metadata: metadata || {}
MetadataOf(metadata) ==
  IF metadata = Null THEN EmptyMeta ELSE [EmptyMeta EXCEPT !.custom = metadata]

\* Promise.all(items.map(item => WishlistItem.create(...))): every create is
\* started; a create that fails validation rejects before anything is sent to
\* the store and the handler answers through next(error) while the inserts of
\* the other items are still on their way
StartItemCreates(req, payload, defaultTitle) ==
  LET rows == AcceptedRows(payload, defaultTitle)
  IN IF AnyRejected(payload, defaultTitle)
     THEN [req EXCEPT !.pending = rows, !.rejected = TRUE,
                      !.pc = IF rows = EmptyBag THEN "done" ELSE "drain",
                      !.resp = ValidationError]
     ELSE [req EXCEPT !.pending = rows,
                      !.pc = IF rows = EmptyBag THEN "refetch" ELSE "items"]

\* one INSERT INTO wishlist_items of a started WishlistItem.create
InsertItem(r) ==
  /\ r \in DOMAIN requests
  /\ requests[r].pc \in {"items", "drain"}
  /\ \E row \in BagToSet(requests[r].pending) :
       LET rest == requests[r].pending (-) SetToBag({row})
           wid == requests[r].target
       IN /\ items' = [items EXCEPT ![wid] = @ (+) SetToBag({row})]
          /\ requests' = [requests EXCEPT
                            ![r].pending = rest,
                            ![r].pc = IF rest # EmptyBag THEN @
                                      ELSE IF @ = "drain" THEN "done" ELSE "refetch"]
  /\ UNCHANGED <<now, wishlists, idempotency>>

\* ------------------------------------------------- createWishlist (kiosk)
CreatesInFlight ==
  Cardinality({r \in DOMAIN requests : requests[r].pc \in {"idem", "wishlist"}})

\* expiresAt.setHours(expiresAt.getHours() + expirationHours)
ExpiresAt(t) == t + WishlistExpirationHours

NewWishlist(user_id, source, token, expires_at, metadata) ==
  [NoRow EXCEPT !.user_id = user_id, !.status = "ACTIVE", !.source = source,
                !.qr_code_token = token, !.expires_at = expires_at,
                !.metadata = MetadataOf(metadata)]

\* the replay of a COMPLETED idempotency record
ReplayRespAsCreated(existing) == [code |-> CREATED, body |-> existing.response_data]

ReplayResp(existing) == [code |-> OK, body |-> existing.response_data]

\* the replay kept for the owner of the original request only
CreateWishlistSameOwnerOnly(user_id, payload, source, metadata, key) ==
  LET req == [BaseRequest EXCEPT !.op = "createWishlist", !.user_id = user_id,
                                 !.items = payload, !.source = source,
                                 !.metadata = metadata, !.key = key]
      existing == idempotency[key]
  IN /\ Begin(
          IF user_id = Null
            THEN [req EXCEPT !.resp = ErrorResp(BAD_REQUEST, "user_id is required")]
          ELSE IF ItemsMissing(payload)
            THEN [req EXCEPT !.resp = ErrorResp(BAD_REQUEST, "items array is required")]
          ELSE IF key # Null /\ existing.status = "COMPLETED"
                             /\ existing.response_data.wishlist.user_id = user_id
            THEN [req EXCEPT !.resp = ReplayResp(existing)]
          ELSE IF key # Null /\ existing.status \in {"PROCESSING", "COMPLETED"}
            THEN [req EXCEPT !.resp = ErrorResp(CONFLICT, "Request is already being processed")]
          ELSE IF key # Null
            THEN [req EXCEPT !.pc = "idem"]
          ELSE [req EXCEPT !.pc = "wishlist", !.tval = ExpiresAt(now)])
     /\ UNCHANGED <<now, wishlists, items, idempotency>>

\* POST /api/wishlists: validation and the idempotency lookup
CreateWishlist(user_id, payload, source, metadata, key) ==
  LET req == [BaseRequest EXCEPT !.op = "createWishlist", !.user_id = user_id,
                                 !.items = payload, !.source = source,
                                 !.metadata = metadata, !.key = key]
      existing == idempotency[key]
  IN /\ Begin(
          IF user_id = Null
            THEN [req EXCEPT !.resp = ErrorResp(BAD_REQUEST, "user_id is required")]
          ELSE IF ItemsMissing(payload)
            THEN [req EXCEPT !.resp = ErrorResp(BAD_REQUEST, "items array is required")]
          ELSE IF key # Null /\ existing.status = "COMPLETED"
            THEN [req EXCEPT !.resp = ReplayResp(existing)]
          ELSE IF key # Null /\ existing.status = "PROCESSING"
            THEN [req EXCEPT !.resp = ErrorResp(CONFLICT, "Request is already being processed")]
          ELSE IF key # Null
            THEN [req EXCEPT !.pc = "idem"]
          ELSE [req EXCEPT !.pc = "wishlist", !.tval = ExpiresAt(now)])
     /\ UNCHANGED <<now, wishlists, items, idempotency>>

\* await Idempotency.create({ idempotency_key, status: 'PROCESSING' }); the
\* unique index on idempotency_key rejects a second row for the key and the
\* error goes to next(error)
CreateWishlistIdempotencyUpsert(r) ==
  /\ Running(r, "createWishlist", "idem")
  /\ idempotency' = [idempotency EXCEPT ![requests[r].key] =
                       [NoIdem EXCEPT !.status = "PROCESSING"]]
  /\ requests' = [requests EXCEPT ![r].pc = "wishlist", ![r].tval = ExpiresAt(now)]
  /\ UNCHANGED <<now, wishlists, items>>

CreateWishlistIdempotency(r) ==
  /\ Running(r, "createWishlist", "idem")
  /\ LET key == requests[r].key
     IN IF idempotency[key].status # "NONE"
        THEN /\ Finish(r, UniqueConstraintError)
             /\ UNCHANGED idempotency
        ELSE /\ idempotency' = [idempotency EXCEPT ![key] =
                                  [NoIdem EXCEPT !.status = "PROCESSING"]]
             /\ requests' = [requests EXCEPT ![r].pc = "wishlist",
                                             ![r].tval = ExpiresAt(now)]
  /\ UNCHANGED <<now, wishlists, items>>

\* await Wishlist.create({...}) with the token crypto.randomBytes produced,
\* then the start of the item creates
InsertWishlistUnchecked(r, token, defaultTitle) ==
  /\ wishlists' = Append(wishlists,
                    NewWishlist(requests[r].user_id, requests[r].source, token,
                                requests[r].tval, requests[r].metadata))
  /\ items' = Append(items, EmptyBag)
  /\ requests' = [requests EXCEPT ![r] =
                    StartItemCreates([@ EXCEPT !.target = Len(wishlists) + 1,
                                               !.token = token],
                                     @.items, defaultTitle)]

InsertWishlist(r, token, defaultTitle) ==
  IF \E w \in DOMAIN wishlists : wishlists[w].qr_code_token = token
  THEN /\ Finish(r, UniqueConstraintError)
       /\ UNCHANGED <<wishlists, items>>
  ELSE /\ wishlists' = Append(wishlists,
                         NewWishlist(requests[r].user_id, requests[r].source, token,
                                     requests[r].tval, requests[r].metadata))
       /\ items' = Append(items, EmptyBag)
       /\ requests' = [requests EXCEPT ![r] =
                         StartItemCreates([@ EXCEPT !.target = Len(wishlists) + 1,
                                                    !.token = token],
                                          @.items, defaultTitle)]

UnknownProduct == 9

CreateWishlistInsert(r, token) ==
  /\ Running(r, "createWishlist", "wishlist")
  /\ InsertWishlist(r, token, UnknownProduct)
  /\ UNCHANGED <<now, idempotency>>

\* const response = { wishlist: completeWishlist, qr_code_token: qrCodeToken }
CreateResponseBody(wid, token) ==
  [NoBody EXCEPT !.wishlist_id = wid, !.wishlist = FindByPk(wid),
                 !.items = ItemsOfWishlist(wid), !.qr_code_token = token]

\* await Wishlist.findByPk(wishlist.wishlist_id, { include items }); without
\* an idempotency record the 201 follows at once
CreateWishlistRefetch(r) ==
  /\ Running(r, "createWishlist", "refetch")
  /\ LET body == CreateResponseBody(requests[r].target, requests[r].token)
     IN IF requests[r].key # Null
        THEN requests' = [requests EXCEPT ![r].pc = "idemUpdate",
                                          ![r].resp = [code |-> 0, body |-> body]]
        ELSE Finish(r, [code |-> CREATED, body |-> body])
  /\ UNCHANGED <<now, wishlists, items, idempotency>>

\* await idempotencyRecord.update({ wishlist_id, response_data, status:
\* 'COMPLETED' }); res.status(201).json(response)
CreateWishlistComplete(r) ==
  /\ Running(r, "createWishlist", "idemUpdate")
  /\ idempotency' = [idempotency EXCEPT ![requests[r].key] =
                       [status |-> "COMPLETED", wishlist_id |-> requests[r].target,
                        response_data |-> requests[r].resp.body]]
  /\ Finish(r, [code |-> CREATED, body |-> requests[r].resp.body])
  /\ UNCHANGED <<now, wishlists, items>>

\* ------------------------------------------------- updateWishlistItems
\* await WishlistItem.destroy({ where: { wishlist_id } }), then items.map(...):
\* a body without an items array makes items.map throw
DestroyAndStartCreates(r, payload) ==
  /\ items' = [items EXCEPT ![requests[r].target] = EmptyBag]
  /\ IF ~payload.isArray
     THEN Finish(r, ErrorHandler("TypeError", Null))
     ELSE requests' = [requests EXCEPT ![r] = StartItemCreates(@, payload, Null)]

\* PUT /api/wishlists/:wishlistId/items: findByPk and the status check
UpdateWishlistItemsAnyStatus(wishlistId, payload) ==
  LET req == [BaseRequest EXCEPT !.op = "updateWishlistItems", !.wishlistId = wishlistId,
                                 !.items = payload, !.target = wishlistId]
      w == FindByPk(wishlistId)
  IN /\ Begin(
          IF w = NoRow
            THEN [req EXCEPT !.resp = ErrorResp(NOT_FOUND, "Wishlist not found")]
          ELSE [req EXCEPT !.pc = "destroy", !.snap = w])
     /\ UNCHANGED <<now, wishlists, items, idempotency>>

UpdateWishlistItems(wishlistId, payload) ==
  LET req == [BaseRequest EXCEPT !.op = "updateWishlistItems", !.wishlistId = wishlistId,
                                 !.items = payload, !.target = wishlistId]
      w == FindByPk(wishlistId)
  IN /\ Begin(
          IF w = NoRow
            THEN [req EXCEPT !.resp = ErrorResp(NOT_FOUND, "Wishlist not found")]
          ELSE IF w.status # "ACTIVE"
            THEN [req EXCEPT !.resp = ErrorResp(BAD_REQUEST, "Cannot update wishlist")]
          ELSE [req EXCEPT !.pc = "destroy", !.snap = w])
     /\ UNCHANGED <<now, wishlists, items, idempotency>>

UpdateWishlistItemsDestroy(r) ==
  /\ Running(r, "updateWishlistItems", "destroy")
  /\ DestroyAndStartCreates(r, requests[r].items)
  /\ UNCHANGED <<now, wishlists, idempotency>>

UpdateWishlistItemsRefetch(r) ==
  /\ Running(r, "updateWishlistItems", "refetch")
  /\ LET wid == requests[r].target
     IN Finish(r, WishlistResp(OK, wid, FindByPk(wid), ItemsOfWishlist(wid)))
  /\ UNCHANGED <<now, wishlists, items, idempotency>>

\* ------------------------------------------------- cancelWishlist, expireWishlist
\* DELETE /api/wishlists/:wishlistId: findByPk
CancelWishlistUnlessCompleted(wishlistId) ==
  LET req == [BaseRequest EXCEPT !.op = "cancelWishlist", !.wishlistId = wishlistId,
                                 !.target = wishlistId]
      w == FindByPk(wishlistId)
  IN /\ Begin(
          IF w = NoRow
            THEN [req EXCEPT !.resp = ErrorResp(NOT_FOUND, "Wishlist not found")]
          ELSE IF w.status = "COMPLETED"
            THEN [req EXCEPT !.resp = ErrorResp(BAD_REQUEST, "Cannot cancel wishlist")]
          ELSE [req EXCEPT !.pc = "write", !.snap = w])
     /\ UNCHANGED <<now, wishlists, items, idempotency>>

CancelWishlist(wishlistId) ==
  LET req == [BaseRequest EXCEPT !.op = "cancelWishlist", !.wishlistId = wishlistId,
                                 !.target = wishlistId]
      w == FindByPk(wishlistId)
  IN /\ Begin(
          IF w = NoRow
            THEN [req EXCEPT !.resp = ErrorResp(NOT_FOUND, "Wishlist not found")]
          ELSE [req EXCEPT !.pc = "write", !.snap = w])
     /\ UNCHANGED <<now, wishlists, items, idempotency>>

CancelledValues == [status |-> "CANCELLED"]

\* await wishlist.update({ status: 'CANCELLED' })
CancelWishlistWrite(r) ==
  /\ Running(r, "cancelWishlist", "write")
  /\ LET wid == requests[r].target
     IN /\ wishlists' = [wishlists EXCEPT ![wid] =
                           InstanceUpdate(@, requests[r].snap, CancelledValues)]
        /\ Finish(r, WishlistResp(OK, wid,
                       InstanceUpdate(requests[r].snap, requests[r].snap, CancelledValues),
                       EmptyBag))
  /\ UNCHANGED <<now, items, idempotency>>

\* POST /api/wishlists/:wishlistId/expire: findByPk
ExpireWishlist(wishlistId) ==
  LET req == [BaseRequest EXCEPT !.op = "expireWishlist", !.wishlistId = wishlistId,
                                 !.target = wishlistId]
      w == FindByPk(wishlistId)
  IN /\ Begin(
          IF w = NoRow
            THEN [req EXCEPT !.resp = ErrorResp(NOT_FOUND, "Wishlist not found")]
          ELSE [req EXCEPT !.pc = "write", !.snap = w])
     /\ UNCHANGED <<now, wishlists, items, idempotency>>

\* await wishlist.update({ status: 'EXPIRED' })
ExpireWishlistWrite(r) ==
  /\ Running(r, "expireWishlist", "write")
  /\ LET wid == requests[r].target
     IN /\ wishlists' = [wishlists EXCEPT ![wid] =
                           InstanceUpdate(@, requests[r].snap, ExpiredValues)]
        /\ Finish(r, WishlistResp(OK, wid,
                       InstanceUpdate(requests[r].snap, requests[r].snap, ExpiredValues),
                       EmptyBag))
  /\ UNCHANGED <<now, items, idempotency>>

\* ------------------------------------------------- mobile controller
\* POST /api/mobile/wishlists: validation; the idempotency-key header of the
\* request is not read
MobileCreateWishlist(user_id, payload, metadata, key) ==
  LET req == [BaseRequest EXCEPT !.op = "mobileCreateWishlist", !.user_id = user_id,
                                 !.items = payload, !.source = "MOBILE_APP",
                                 !.metadata = metadata, !.key = key]
  IN /\ Begin(
          IF user_id = Null
            THEN [req EXCEPT !.resp = ErrorResp(BAD_REQUEST, "user_id is required")]
          ELSE IF ItemsMissing(payload)
            THEN [req EXCEPT !.resp = ErrorResp(BAD_REQUEST, "items array is required")]
          ELSE [req EXCEPT !.pc = "wishlist", !.tval = ExpiresAt(now)])
     /\ UNCHANGED <<now, wishlists, items, idempotency>>

MobileCreateWishlistInsert(r, token) ==
  /\ Running(r, "mobileCreateWishlist", "wishlist")
  /\ InsertWishlist(r, token, Null)
  /\ UNCHANGED <<now, idempotency>>

\* findByPk with the items; res.status(201).json({ wishlist })
MobileCreateWishlistRefetch(r) ==
  /\ Running(r, "mobileCreateWishlist", "refetch")
  /\ LET wid == requests[r].target
     IN Finish(r, WishlistResp(CREATED, wid, FindByPk(wid), ItemsOfWishlist(wid)))
  /\ UNCHANGED <<now, wishlists, items, idempotency>>

\* PUT /api/mobile/wishlists/:wishlistId: findOne by id and owner, status check
MobileUpdateWishlist(wishlistId, user_id, payload, metadata) ==
  LET req == [BaseRequest EXCEPT !.op = "mobileUpdateWishlist", !.wishlistId = wishlistId,
                                 !.user_id = user_id, !.items = payload,
                                 !.metadata = metadata, !.target = wishlistId]
      w == FindOwned(wishlistId, user_id)
  IN /\ Begin(
          IF user_id = Null
            THEN [req EXCEPT !.resp = ErrorResp(BAD_REQUEST, "user_id is required")]
          ELSE IF w = NoRow
            THEN [req EXCEPT !.resp = ErrorResp(NOT_FOUND, "Wishlist not found or access denied")]
          ELSE IF w.status # "ACTIVE"
            THEN [req EXCEPT !.resp = ErrorResp(BAD_REQUEST, "Cannot update wishlist")]
          ELSE [req EXCEPT !.snap = w,
                           !.pc = IF metadata # Null THEN "meta"
                                  ELSE IF payload.isArray THEN "destroy" ELSE "refetch"])
     /\ UNCHANGED <<now, wishlists, items, idempotency>>

\* await wishlist.update({ metadata })
MobileUpdateWishlistMetadata(r) ==
  /\ Running(r, "mobileUpdateWishlist", "meta")
  /\ wishlists' = [wishlists EXCEPT ![requests[r].target] =
                     InstanceUpdate(@, requests[r].snap,
                                    [metadata |-> MetadataOf(requests[r].metadata)])]
  /\ requests' = [requests EXCEPT ![r].pc =
                    IF requests[r].items.isArray THEN "destroy" ELSE "refetch"]
  /\ UNCHANGED <<now, items, idempotency>>

MobileUpdateWishlistDestroy(r) ==
  /\ Running(r, "mobileUpdateWishlist", "destroy")
  /\ DestroyAndStartCreates(r, requests[r].items)
  /\ UNCHANGED <<now, wishlists, idempotency>>

MobileUpdateWishlistRefetch(r) ==
  /\ Running(r, "mobileUpdateWishlist", "refetch")
  /\ LET wid == requests[r].target
     IN Finish(r, WishlistResp(OK, wid, FindByPk(wid), ItemsOfWishlist(wid)))
  /\ UNCHANGED <<now, wishlists, items, idempotency>>

\* DELETE /api/mobile/wishlists/:wishlistId: findOne by id and owner
MobileDeleteWishlist(wishlistId, user_id) ==
  LET req == [BaseRequest EXCEPT !.op = "mobileDeleteWishlist", !.wishlistId = wishlistId,
                                 !.user_id = user_id, !.target = wishlistId]
      w == FindOwned(wishlistId, user_id)
  IN /\ Begin(
          IF user_id = Null
            THEN [req EXCEPT !.resp = ErrorResp(BAD_REQUEST, "user_id query parameter is required")]
          ELSE IF w = NoRow
            THEN [req EXCEPT !.resp = ErrorResp(NOT_FOUND, "Wishlist not found or access denied")]
          ELSE [req EXCEPT !.pc = "write", !.snap = w])
     /\ UNCHANGED <<now, wishlists, items, idempotency>>

\* await wishlist.update({ status: 'CANCELLED' }); 200 with a message only
MobileDeleteWishlistWrite(r) ==
  /\ Running(r, "mobileDeleteWishlist", "write")
  /\ wishlists' = [wishlists EXCEPT ![requests[r].target] =
                     InstanceUpdate(@, requests[r].snap, CancelledValues)]
  /\ Finish(r, [code |-> OK, body |-> NoBody])
  /\ UNCHANGED <<now, items, idempotency>>

\* POST /api/mobile/wishlists/:wishlistId/qr: findOne with the items, the
\* status check, the expiry check, or the QR data
GenerateQRCodeExpiryFirst(wishlistId, user_id) ==
  LET req == [BaseRequest EXCEPT !.op = "generateQRCode", !.wishlistId = wishlistId,
                                 !.user_id = user_id, !.target = wishlistId]
      w == FindOwned(wishlistId, user_id)
  IN /\ Begin(
          IF user_id = Null
            THEN [req EXCEPT !.resp = ErrorResp(BAD_REQUEST, "user_id is required")]
          ELSE IF w = NoRow
            THEN [req EXCEPT !.resp = ErrorResp(NOT_FOUND, "Wishlist not found or access denied")]
          ELSE IF IsExpired(w, now)
            THEN [req EXCEPT !.pc = "expire", !.snap = w]
          ELSE IF w.status # "ACTIVE"
            THEN [req EXCEPT !.resp = ErrorResp(BAD_REQUEST, "Cannot generate QR code")]
          ELSE [req EXCEPT !.resp =
                  [code |-> OK,
                   body |-> [NoBody EXCEPT !.wishlist_id = wishlistId,
                                           !.qr_code_token = w.qr_code_token,
                                           !.items = ItemsOfWishlist(wishlistId),
                                           !.expired_at = w.expires_at]]])
     /\ UNCHANGED <<now, wishlists, items, idempotency>>

GenerateQRCodeRegenerating(wishlistId, user_id) ==
  LET req == [BaseRequest EXCEPT !.op = "generateQRCode", !.wishlistId = wishlistId,
                                 !.user_id = user_id, !.target = wishlistId]
      w == FindOwned(wishlistId, user_id)
  IN /\ Begin(
          IF user_id = Null
            THEN [req EXCEPT !.resp = ErrorResp(BAD_REQUEST, "user_id is required")]
          ELSE IF w = NoRow
            THEN [req EXCEPT !.resp = ErrorResp(NOT_FOUND, "Wishlist not found or access denied")]
          ELSE IF w.status # "ACTIVE"
            THEN [req EXCEPT !.resp = ErrorResp(BAD_REQUEST, "Cannot generate QR code")]
          ELSE IF IsExpired(w, now)
            THEN [req EXCEPT !.pc = "expire", !.snap = w]
          ELSE [req EXCEPT !.resp =
                  [code |-> OK,
                   body |-> [NoBody EXCEPT !.wishlist_id = wishlistId,
                                           !.qr_code_token = Len(wishlists) + w.qr_code_token,
                                           !.items = ItemsOfWishlist(wishlistId),
                                           !.expired_at = w.expires_at]]])
     /\ wishlists' = IF w # NoRow /\ w.status = "ACTIVE" /\ ~IsExpired(w, now)
                      THEN [wishlists EXCEPT ![wishlistId].qr_code_token =
                              Len(wishlists) + w.qr_code_token]
                      ELSE wishlists
     /\ UNCHANGED <<now, items, idempotency>>

GenerateQRCode(wishlistId, user_id) ==
  LET req == [BaseRequest EXCEPT !.op = "generateQRCode", !.wishlistId = wishlistId,
                                 !.user_id = user_id, !.target = wishlistId]
      w == FindOwned(wishlistId, user_id)
  IN /\ Begin(
          IF user_id = Null
            THEN [req EXCEPT !.resp = ErrorResp(BAD_REQUEST, "user_id is required")]
          ELSE IF w = NoRow
            THEN [req EXCEPT !.resp = ErrorResp(NOT_FOUND, "Wishlist not found or access denied")]
          ELSE IF w.status # "ACTIVE"
            THEN [req EXCEPT !.resp = ErrorResp(BAD_REQUEST, "Cannot generate QR code")]
          ELSE IF IsExpired(w, now)
            THEN [req EXCEPT !.pc = "expire", !.snap = w]
          ELSE [req EXCEPT !.resp =
                  [code |-> OK,
                   body |-> [NoBody EXCEPT !.wishlist_id = wishlistId,
                                           !.qr_code_token = w.qr_code_token,
                                           !.items = ItemsOfWishlist(wishlistId),
                                           !.expired_at = w.expires_at]]])
     /\ UNCHANGED <<now, wishlists, items, idempotency>>

\* await wishlist.update({ status: 'EXPIRED' }); 410
GenerateQRCodeExpire(r) ==
  /\ Running(r, "generateQRCode", "expire")
  /\ wishlists' = [wishlists EXCEPT ![requests[r].target] =
                     InstanceUpdate(@, requests[r].snap, ExpiredValues)]
  /\ Finish(r, ErrorResp(GONE, "Wishlist has expired"))
  /\ UNCHANGED <<now, items, idempotency>>

\* ------------------------------------------------- getWishlist
\* GET /api/wishlists/:wishlistId: findByPk with the items; the row is
\* answered as it was read
GetWishlist(wishlistId) ==
  LET req == [BaseRequest EXCEPT !.op = "getWishlist", !.wishlistId = wishlistId,
                                 !.target = wishlistId]
      w == FindByPk(wishlistId)
  IN /\ Begin(
          IF w = NoRow
            THEN [req EXCEPT !.resp = ErrorResp(NOT_FOUND, "Wishlist not found")]
          ELSE [req EXCEPT !.snap = w,
                           !.resp = WishlistResp(OK, wishlistId, w, ItemsOfWishlist(wishlistId))])
     /\ UNCHANGED <<now, wishlists, items, idempotency>>

\* GET /api/mobile/wishlists/:wishlistId?user_id=: findOne by id and owner with
\* the items
MobileGetWishlist(wishlistId, user_id) ==
  LET req == [BaseRequest EXCEPT !.op = "mobileGetWishlist", !.wishlistId = wishlistId,
                                 !.user_id = user_id, !.target = wishlistId]
      w == FindOwned(wishlistId, user_id)
  IN /\ Begin(
          IF user_id = Null
            THEN [req EXCEPT !.resp = ErrorResp(BAD_REQUEST, "user_id query parameter is required")]
          ELSE IF w = NoRow
            THEN [req EXCEPT !.resp = ErrorResp(NOT_FOUND, "Wishlist not found or access denied")]
          ELSE [req EXCEPT !.snap = w,
                           !.resp = WishlistResp(OK, wishlistId, w, ItemsOfWishlist(wishlistId))])
     /\ UNCHANGED <<now, wishlists, items, idempotency>>

\* ------------------------------------------------- POS: getWishlistStatus
\* { status, qr_code_used: !!qr_code_used_at, processed: !!processed_at,
\*   expired: new Date() > new Date(expires_at) }
StatusReportExpiredByStatus(w, t) ==
  [NoBody EXCEPT !.status = w.status,
                 !.qr_code_used = (w.qr_code_used_at # Null),
                 !.processed = (w.processed_at # Null),
                 !.expired = (w.status = "EXPIRED")]

StatusReport(w, t) ==
  [NoBody EXCEPT !.status = w.status,
                 !.qr_code_used = (w.qr_code_used_at # Null),
                 !.processed = (w.processed_at # Null),
                 !.expired = IsExpired(w, t)]

\* GET /api/pos/wishlists/:wishlistId/status: findByPk and the report
GetWishlistStatus(wishlistId) ==
  LET req == [BaseRequest EXCEPT !.op = "getWishlistStatus", !.wishlistId = wishlistId,
                                 !.target = wishlistId]
      w == FindByPk(wishlistId)
  IN /\ Begin(
          IF w = NoRow
            THEN [req EXCEPT !.resp = ErrorResp(NOT_FOUND, "Wishlist not found")]
          ELSE [req EXCEPT !.resp = [code |-> OK, body |-> StatusReport(w, now)]])
     /\ UNCHANGED <<now, wishlists, items, idempotency>>

\* ------------------------------------------------- POS: posAuthMiddleware
\* req.headers['x-pos-secret'] || req.headers['x-pos-token']; Null stands for
\* a header that is absent or empty
AuthHeader(x_pos_secret, x_pos_token) ==
  IF x_pos_secret # Null THEN x_pos_secret ELSE x_pos_token

\* any header that is present is accepted
PosAuthMiddlewareAnyHeader(posSecret, production, x_pos_secret, x_pos_token) ==
  LET authHeader == AuthHeader(x_pos_secret, x_pos_token)
  IN IF posSecret = Null
       THEN IF production
              THEN ErrorResp(INTERNAL_SERVER_ERROR, "Service configuration error")
            ELSE NoResp
     ELSE IF authHeader = Null
       THEN ErrorResp(UNAUTHORIZED, "POS authentication required")
     ELSE NoResp

\* the response of the middleware, NoResp when it calls next(); posSecret is
\* process.env.POS_SECRET_TOKEN (Null: not set or empty) and production is
\* process.env.NODE_ENV === 'production'
PosAuthMiddleware(posSecret, production, x_pos_secret, x_pos_token) ==
  LET authHeader == AuthHeader(x_pos_secret, x_pos_token)
  IN IF posSecret = Null
       THEN IF production
              THEN ErrorResp(INTERNAL_SERVER_ERROR, "Service configuration error")
            ELSE NoResp
     ELSE IF authHeader = Null
       THEN ErrorResp(UNAUTHORIZED, "POS authentication required")
     ELSE IF authHeader # posSecret
       THEN ErrorResp(FORBIDDEN, "Invalid POS credentials")
     ELSE NoResp

\* a request to /api/pos/... goes through router.use(posAuthMiddleware): it is
\* answered by the middleware, or handed to its route (pc "next")
PosRequest(route, wishlistId, qr_token, posSecret, production, x_pos_secret, x_pos_token) ==
  LET verdict == PosAuthMiddleware(posSecret, production, x_pos_secret, x_pos_token)
      req == [BaseRequest EXCEPT !.op = "pos", !.route = route,
                                 !.wishlistId = wishlistId, !.qr_token = qr_token,
                                 !.posSecret = posSecret, !.production = production,
                                 !.x_pos_secret = x_pos_secret,
                                 !.x_pos_token = x_pos_token]
  IN /\ Begin(IF verdict = NoResp
                THEN [req EXCEPT !.pc = "next"]
              ELSE [req EXCEPT !.resp = verdict])
     /\ UNCHANGED <<now, wishlists, items, idempotency>>

\* next() has been called for the newest request and its route has not run yet
Routing == Len(requests) > 0 /\ requests[Len(requests)].pc = "next"

\* next(): the route of the request runs in the same tick as the middleware
PosRoute ==
  /\ Routing
  /\ LET a == requests[Len(requests)]
     IN \/ a.route = "fetch" /\ FetchWishlist(a.wishlistId, a.qr_token)
        \/ a.route = "complete" /\ CompleteWishlist(a.wishlistId, "", 7)
        \/ a.route = "cancel" /\ PosCancelWishlist(a.wishlistId, 5)
        \/ a.route = "status" /\ GetWishlistStatus(a.wishlistId)

\* ------------------------------------------------------------------ clock
Tick ==
  /\ now < MaxTime
  /\ now' = now + 1
  /\ UNCHANGED <<wishlists, items, idempotency, requests>>

Init ==
  /\ now = 1
  /\ wishlists = << >>
  /\ items = << >>
  /\ idempotency = [k \in Keys |-> NoIdem]
  /\ requests = << >>

\* ------------------------------------------------- inputs of the requests
WishlistIds == 1..MaxWishlists

\* fewer than n requests have arrived
Arrivals(n) == Len(requests) < n

\* fewer than n wishlists exist or are about to be inserted
Stock(n) == Len(wishlists) + CreatesInFlight < n

\* the kiosk request that stocks the store in the scenarios about one wishlist
CreateDefault ==
  /\ Stock(1)
  /\ CreateWishlist(1, ItemsOf(<<ItemA>>), "KIOSK", Null, Null)

CreateDefaultSteps ==
  \/ \E r \in DOMAIN requests : CreateWishlistInsert(r, 1)
  \/ \E r \in DOMAIN requests : InsertItem(r)
  \/ \E r \in DOMAIN requests : CreateWishlistRefetch(r)

RedeemSteps ==
  \/ \E r \in DOMAIN requests : FetchWishlistExpire(r)
  \/ \E r \in DOMAIN requests : FetchWishlistMark(r)
  \/ \E r \in DOMAIN requests : FetchWishlistRefetch(r)
  \/ \E r \in DOMAIN requests : FetchByQRTokenExpire(r)
  \/ \E r \in DOMAIN requests : FetchByQRTokenMark(r)
  \/ \E r \in DOMAIN requests : FetchByQRTokenReread(r)
  \/ \E r \in DOMAIN requests : FetchByQRTokenRefetch(r)

\* redemption attempts only, through both entry points
NextRedeem ==
  \/ Tick
  \/ Arrivals(MaxRedeemRequests) /\ CreateDefault
  \/ CreateDefaultSteps
  \/ Arrivals(MaxRedeemRequests) /\ \E tok \in Tokens : FetchWishlist(1, tok)
  \/ Arrivals(MaxRedeemRequests) /\ \E tok \in Tokens : FetchByQRToken(tok)
  \/ RedeemSteps

SpecRedeem == Init /\ [][NextRedeem]_vars

\* every operation on one wishlist
LifecycleSteps ==
  \/ \E r \in DOMAIN requests : CompleteWishlistWrite(r)
  \/ \E r \in DOMAIN requests : PosCancelWishlistWrite(r)
  \/ \E r \in DOMAIN requests : CancelWishlistWrite(r)
  \/ \E r \in DOMAIN requests : ExpireWishlistWrite(r)
  \/ \E r \in DOMAIN requests : MobileDeleteWishlistWrite(r)
  \/ \E r \in DOMAIN requests : GenerateQRCodeExpire(r)
  \/ \E r \in DOMAIN requests : UpdateWishlistItemsDestroy(r)
  \/ \E r \in DOMAIN requests : UpdateWishlistItemsRefetch(r)
  \/ \E r \in DOMAIN requests : MobileUpdateWishlistMetadata(r)
  \/ \E r \in DOMAIN requests : MobileUpdateWishlistDestroy(r)
  \/ \E r \in DOMAIN requests : MobileUpdateWishlistRefetch(r)

NextLifecycle ==
  \/ Tick
  \/ Arrivals(MaxRequests) /\ CreateDefault
  \/ CreateDefaultSteps
  \/ Arrivals(MaxRequests) /\ \E tok \in Tokens : FetchWishlist(1, tok)
  \/ Arrivals(MaxRequests) /\ FetchByQRToken(1)
  \/ RedeemSteps
  \/ Arrivals(MaxRequests) /\ CompleteWishlist(1, "", 7)
  \/ Arrivals(MaxRequests) /\ PosCancelWishlist(1, 5)
  \/ Arrivals(MaxRequests) /\ CancelWishlist(1)
  \/ Arrivals(MaxRequests) /\ ExpireWishlist(1)
  \/ Arrivals(MaxRequests) /\ \E u \in Users : MobileDeleteWishlist(1, u)
  \/ Arrivals(MaxRequests) /\ \E u \in Users : GenerateQRCode(1, u)
  \/ Arrivals(MaxRequests) /\ UpdateWishlistItems(1, ItemsOf(<<ItemB>>))
  \/ Arrivals(MaxRequests) /\ MobileUpdateWishlist(1, 1, ItemsOf(<<ItemB>>), 3)
  \/ LifecycleSteps

SpecLifecycle == Init /\ [][NextLifecycle]_vars

\* a redeemed wishlist and the requests that settle it: completion reports,
\* cancellations and expirations in any interleaving
NextSettle ==
  \/ Tick
  \/ Arrivals(MaxSettleRequests) /\ CreateDefault
  \/ CreateDefaultSteps
  \/ Arrivals(MaxSettleRequests) /\ FetchWishlist(1, 1)
  \/ \E r \in DOMAIN requests : FetchWishlistExpire(r)
  \/ \E r \in DOMAIN requests : FetchWishlistMark(r)
  \/ \E r \in DOMAIN requests : FetchWishlistRefetch(r)
  \/ Arrivals(MaxSettleRequests) /\ CompleteWishlist(1, "", 7)
  \/ \E r \in DOMAIN requests : CompleteWishlistWrite(r)
  \/ Arrivals(MaxSettleRequests) /\ PosCancelWishlist(1, 5)
  \/ \E r \in DOMAIN requests : PosCancelWishlistWrite(r)
  \/ Arrivals(MaxSettleRequests) /\ CancelWishlist(1)
  \/ \E r \in DOMAIN requests : CancelWishlistWrite(r)
  \/ Arrivals(MaxSettleRequests) /\ ExpireWishlist(1)
  \/ \E r \in DOMAIN requests : ExpireWishlistWrite(r)

SpecSettle == Init /\ [][NextSettle]_vars

\* creates that carry the same key, and operations on the wishlist of the key
ReplayPayloads == {ItemsOf(<<ItemA>>), ItemsOf(<<ItemB>>)}

NextReplay ==
  \/ Tick
  \/ /\ Arrivals(MaxRequests)
     /\ Stock(MaxWishlists)
     /\ \E payload \in ReplayPayloads, key \in Keys :
          CreateWishlist(1, payload, "KIOSK", Null, key)
  \/ \E r \in DOMAIN requests : CreateWishlistIdempotency(r)
  \/ \E r \in DOMAIN requests, token \in Tokens : CreateWishlistInsert(r, token)
  \/ \E r \in DOMAIN requests : InsertItem(r)
  \/ \E r \in DOMAIN requests : CreateWishlistRefetch(r)
  \/ \E r \in DOMAIN requests : CreateWishlistComplete(r)
  \/ Arrivals(MaxRequests) /\ CancelWishlist(1)
  \/ \E r \in DOMAIN requests : CancelWishlistWrite(r)
  \/ Arrivals(MaxRequests) /\ UpdateWishlistItems(1, ItemsOf(<<ItemB>>))
  \/ \E r \in DOMAIN requests : UpdateWishlistItemsDestroy(r)
  \/ \E r \in DOMAIN requests : UpdateWishlistItemsRefetch(r)

SpecReplay == Init /\ [][NextReplay]_vars

\* redemption by id and token, over the wishlists of the store and an id
\* that no wishlist has
LookupIds == 1..(MaxWishlists + 1)

NextLookup ==
  \/ Tick
  \/ /\ Arrivals(MaxRequests)
     /\ Stock(MaxWishlists)
     /\ CreateWishlist(1, ItemsOf(<<ItemA>>), "KIOSK", Null, Null)
  \/ \E r \in DOMAIN requests, token \in Tokens : CreateWishlistInsert(r, token)
  \/ \E r \in DOMAIN requests : InsertItem(r)
  \/ \E r \in DOMAIN requests : CreateWishlistRefetch(r)
  \/ /\ Arrivals(MaxRequests)
     /\ \E wishlistId \in LookupIds, tok \in Tokens : FetchWishlist(wishlistId, tok)
  \/ \E r \in DOMAIN requests : FetchWishlistExpire(r)
  \/ \E r \in DOMAIN requests : FetchWishlistMark(r)
  \/ \E r \in DOMAIN requests : FetchWishlistRefetch(r)

SpecLookup == Init /\ [][NextLookup]_vars

\* the mobile operations on one wishlist of user 1, by its owner and by
\* another user, and on an id that no wishlist has
OwnerIds == {1, 2}

NextOwner ==
  \/ Tick
  \/ Arrivals(MaxRequests) /\ CreateDefault
  \/ CreateDefaultSteps
  \/ /\ Arrivals(MaxRequests)
     /\ \E wishlistId \in OwnerIds, u \in Users : MobileGetWishlist(wishlistId, u)
  \/ /\ Arrivals(MaxRequests)
     /\ \E wishlistId \in OwnerIds, u \in Users :
          MobileUpdateWishlist(wishlistId, u, ItemsOf(<<ItemB>>), 3)
  \/ \E r \in DOMAIN requests : MobileUpdateWishlistMetadata(r)
  \/ \E r \in DOMAIN requests : MobileUpdateWishlistDestroy(r)
  \/ \E r \in DOMAIN requests : InsertItem(r)
  \/ \E r \in DOMAIN requests : MobileUpdateWishlistRefetch(r)
  \/ /\ Arrivals(MaxRequests)
     /\ \E wishlistId \in OwnerIds, u \in Users : MobileDeleteWishlist(wishlistId, u)
  \/ \E r \in DOMAIN requests : MobileDeleteWishlistWrite(r)
  \/ /\ Arrivals(MaxRequests)
     /\ \E wishlistId \in OwnerIds, u \in Users : GenerateQRCode(wishlistId, u)
  \/ \E r \in DOMAIN requests : GenerateQRCodeExpire(r)

SpecOwner == Init /\ [][NextOwner]_vars

\* creates through both entry points with and without the owner, the items
\* and the key
ValidatePayloads == {NoItems, ItemsOf(<< >>), ItemsOf(<<ItemA>>)}

NextValidate ==
  \/ Tick
  \/ /\ Arrivals(MaxRequests)
     /\ Stock(MaxWishlists)
     /\ \E user_id \in {Null, 1}, payload \in ValidatePayloads, key \in Keys \cup {Null} :
          CreateWishlist(user_id, payload, "KIOSK", Null, key)
  \/ /\ Arrivals(MaxRequests)
     /\ Stock(MaxWishlists)
     /\ \E user_id \in {Null, 1}, payload \in ValidatePayloads, key \in Keys \cup {Null} :
          MobileCreateWishlist(user_id, payload, Null, key)
  \/ \E r \in DOMAIN requests : CreateWishlistIdempotency(r)
  \/ \E r \in DOMAIN requests, token \in Tokens : CreateWishlistInsert(r, token)
  \/ \E r \in DOMAIN requests, token \in Tokens : MobileCreateWishlistInsert(r, token)
  \/ \E r \in DOMAIN requests : InsertItem(r)
  \/ \E r \in DOMAIN requests : CreateWishlistRefetch(r)
  \/ \E r \in DOMAIN requests : CreateWishlistComplete(r)
  \/ \E r \in DOMAIN requests : MobileCreateWishlistRefetch(r)

SpecValidate == Init /\ [][NextValidate]_vars

\* the POS routes behind posAuthMiddleware, on one wishlist that does not
\* reach its expiry
PosRoutes == {"fetch", "complete", "cancel", "status"}

PosSecrets == {Null, 1}

PosHeaders == {Null, 1, 2}

PosRequests == Cardinality({r \in DOMAIN requests : requests[r].op = "pos"})

NextPos ==
  \/ ~Routing /\ Arrivals(MaxRequests) /\ CreateDefault
  \/ ~Routing /\ CreateDefaultSteps
  \/ /\ ~Routing
     /\ PosRequests < MaxPosRequests
     /\ \E route \in PosRoutes, posSecret \in PosSecrets, production \in BOOLEAN,
           x_pos_secret \in PosHeaders, x_pos_token \in PosHeaders :
          PosRequest(route, 1, 1, posSecret, production, x_pos_secret, x_pos_token)
  \/ PosRoute
  \/ ~Routing /\ \E r \in DOMAIN requests : FetchWishlistMark(r)
  \/ ~Routing /\ \E r \in DOMAIN requests : FetchWishlistRefetch(r)
  \/ ~Routing /\ \E r \in DOMAIN requests : CompleteWishlistWrite(r)
  \/ ~Routing /\ \E r \in DOMAIN requests : PosCancelWishlistWrite(r)

SpecPos == Init /\ [][NextPos]_vars

\* replacements of the items of one ACTIVE wishlist through both entry
\* points: payloads that are accepted, a payload without items and a payload
\* with an item the store rejects
UpdatePayloads ==
  {NoItems, ItemsOf(<<ItemA>>), ItemsOf(<<ItemB>>), ItemsOf(<<ItemB, ItemNoVariant>>)}

NextUpdate ==
  \/ Arrivals(MaxRequests) /\ CreateDefault
  \/ CreateDefaultSteps
  \/ /\ Arrivals(MaxRequests)
     /\ \E payload \in UpdatePayloads : UpdateWishlistItems(1, payload)
  \/ /\ Arrivals(MaxRequests)
     /\ \E payload \in UpdatePayloads : MobileUpdateWishlist(1, 1, payload, Null)
  \/ \E r \in DOMAIN requests : UpdateWishlistItemsDestroy(r)
  \/ \E r \in DOMAIN requests : UpdateWishlistItemsRefetch(r)
  \/ \E r \in DOMAIN requests : MobileUpdateWishlistDestroy(r)
  \/ \E r \in DOMAIN requests : MobileUpdateWishlistRefetch(r)

SpecUpdate == Init /\ [][NextUpdate]_vars

\* retries of a keyed kiosk create with another owner, other items or another
\* source
RetrySources == {"KIOSK", "MOBILE_APP"}

NextRetry ==
  \/ /\ Arrivals(MaxRequests)
     /\ Stock(MaxWishlists)
     /\ \E user_id \in Users, payload \in ReplayPayloads, source \in RetrySources,
           key \in Keys :
          CreateWishlist(user_id, payload, source, Null, key)
  \/ \E r \in DOMAIN requests : CreateWishlistIdempotency(r)
  \/ \E r \in DOMAIN requests, token \in Tokens : CreateWishlistInsert(r, token)
  \/ \E r \in DOMAIN requests : InsertItem(r)
  \/ \E r \in DOMAIN requests : CreateWishlistRefetch(r)
  \/ \E r \in DOMAIN requests : CreateWishlistComplete(r)

SpecRetry == Init /\ [][NextRetry]_vars

\* no request is between two of its store accesses
Idle == \A r \in DOMAIN requests : requests[r].pc = "done"

\* a new request arrives when the one before it has been answered; the
\* answered requests before the last one are of no further interest
Serial == Idle /\ Len(requests) <= 1

\* the request before the last one is dropped from the record
Forget ==
  /\ Idle
  /\ Len(requests) = 2
  /\ requests' = Tail(requests)
  /\ UNCHANGED <<now, wishlists, items, idempotency>>

\* every operation on one wishlist, one request after the other; the
\* conditional update of a redeem then always finds the row as it was read
NextSerial ==
  \/ Tick
  \/ Serial /\ CreateDefault
  \/ CreateDefaultSteps
  \/ Serial /\ \E tok \in Tokens : FetchWishlist(1, tok)
  \/ Serial /\ FetchByQRToken(1)
  \/ \E r \in DOMAIN requests : FetchWishlistExpire(r)
  \/ \E r \in DOMAIN requests : FetchWishlistMark(r)
  \/ \E r \in DOMAIN requests : FetchWishlistRefetch(r)
  \/ \E r \in DOMAIN requests : FetchByQRTokenExpire(r)
  \/ \E r \in DOMAIN requests : FetchByQRTokenMark(r)
  \/ \E r \in DOMAIN requests : FetchByQRTokenRefetch(r)
  \/ Serial /\ \E by \in {"", "REG1"} : CompleteWishlist(1, by, 7)
  \/ Serial /\ PosCancelWishlist(1, 5)
  \/ Serial /\ CancelWishlist(1)
  \/ Serial /\ ExpireWishlist(1)
  \/ Serial /\ \E u \in Users : MobileDeleteWishlist(1, u)
  \/ Serial /\ \E u \in Users : GenerateQRCode(1, u)
  \/ Serial /\ UpdateWishlistItems(1, ItemsOf(<<ItemB>>))
  \/ Serial /\ MobileUpdateWishlist(1, 1, ItemsOf(<<ItemB>>), 3)
  \/ Serial /\ GetWishlist(1)
  \/ Serial /\ GetWishlistStatus(1)
  \/ Serial /\ \E u \in Users : MobileGetWishlist(1, u)
  \/ LifecycleSteps
  \/ Forget

SpecSerial == Init /\ [][NextSerial]_vars

\* wishlist creation through both entry points, with and without a key
CreatePayloads == {ItemsOf(<<ItemA>>), ItemsOf(<<ItemA, ItemNoVariant>>)}

Next ==
  \/ Tick
  \/ /\ Arrivals(MaxRequests)
     /\ Stock(MaxWishlists)
     /\ \E payload \in CreatePayloads, key \in Keys \cup {Null} :
          CreateWishlist(1, payload, "KIOSK", Null, key)
  \/ /\ Arrivals(MaxRequests)
     /\ Stock(MaxWishlists)
     /\ \E key \in Keys : MobileCreateWishlist(1, ItemsOf(<<ItemA>>), Null, key)
  \/ \E r \in DOMAIN requests : CreateWishlistIdempotency(r)
  \/ \E r \in DOMAIN requests, token \in Tokens : CreateWishlistInsert(r, token)
  \/ \E r \in DOMAIN requests, token \in Tokens : MobileCreateWishlistInsert(r, token)
  \/ \E r \in DOMAIN requests : InsertItem(r)
  \/ \E r \in DOMAIN requests : CreateWishlistRefetch(r)
  \/ \E r \in DOMAIN requests : CreateWishlistComplete(r)
  \/ \E r \in DOMAIN requests : MobileCreateWishlistRefetch(r)

Spec == Init /\ [][Next]_vars

\* ------------------------------------------------- redemption claims
IsRedeem(r) == requests[r].op \in {"fetchWishlist", "fetchByQRToken"}

\* the redemption attempts that presented the token of wishlist wid (and its
\* id, when they name one) and found the wishlist in the store
Attempts(wid) ==
  {r \in DOMAIN requests :
     /\ IsRedeem(r)
     /\ requests[r].target = wid
     /\ requests[r].qr_token = wishlists[wid].qr_code_token
     /\ requests[r].resp.code # NOT_FOUND}

Succeeded(wid) == {r \in Attempts(wid) : requests[r].resp.code = OK}

\* C1: of N >= 2 redemption attempts with the token of an ACTIVE, unexpired,
\* unused wishlist, interleaved in any order, exactly one succeeds and every
\* other one is answered 409.  (No other operation runs under SpecRedeem, so
\* a wishlist that is still unexpired was ACTIVE and unexpired at every attempt.)
C1_ExactlyOneRedemption ==
  \A wid \in DOMAIN wishlists :
    ( /\ ~IsExpired(wishlists[wid], now)
      /\ Cardinality(Attempts(wid)) >= 2
      /\ \A r \in Attempts(wid) : requests[r].pc = "done" )
    => /\ Cardinality(Succeeded(wid)) = 1
       /\ \A r \in Attempts(wid) \ Succeeded(wid) : requests[r].resp.code = CONFLICT

\* C2: once qr_code_used_at of a wishlist is set, no step writes another
\* value to it
C2_UsedAtWrittenOnce ==
  [][\A wid \in DOMAIN wishlists :
       wishlists[wid].qr_code_used_at # Null
         => wishlists'[wid].qr_code_used_at = wishlists[wid].qr_code_used_at]_vars

\* the timestamp of the first successful redemption of wishlist wid
OriginalUsedAt(wid) ==
  LET firsts == {r \in DOMAIN requests :
                   IsRedeem(r) /\ requests[r].target = wid /\ requests[r].first}
  IN IF firsts = {} THEN Null ELSE requests[CHOOSE r \in firsts : TRUE].tval

\* C10: an attempt that arrives after a redemption of the token has been
\* answered 200 is answered 409 with the timestamp of the first redemption
C10_LaterAttemptsConflict ==
  \A wid \in DOMAIN wishlists :
    \A r1 \in Succeeded(wid), r2 \in Attempts(wid) :
      (r1 \in requests[r2].after /\ Responded(r2))
        => /\ requests[r2].resp.code = CONFLICT
           /\ requests[r2].resp.body.used_at = OriginalUsedAt(wid)

\* ------------------------------------------------- creation claims
IsCreate(r) == requests[r].op \in {"createWishlist", "mobileCreateWishlist"}

\* a kiosk create whose lookup of its key found no record
FoundNoRecord(r) ==
  /\ requests[r].op = "createWishlist"
  /\ requests[r].key # Null
  /\ \/ requests[r].pc = "idem"
     \/ requests[r].tval # Null
     \/ requests[r].resp = UniqueConstraintError

\* C3: of two creates with the same key that both looked the key up before
\* either inserted its record, one creates a wishlist and the other is
\* answered 409 and creates nothing
C3_KeyRaceConflict ==
  \A r1, r2 \in DOMAIN requests :
    ( /\ r1 # r2
      /\ FoundNoRecord(r1) /\ FoundNoRecord(r2)
      /\ requests[r1].key = requests[r2].key
      /\ requests[r1].pc = "done" /\ requests[r2].pc = "done"
      /\ requests[r1].target # Null )
    => /\ requests[r2].target = Null
       /\ requests[r2].resp.code = CONFLICT

\* C4: the creates that carry key K create at most one wishlist
C4_OneWishlistPerKey ==
  \A k \in Keys :
    Cardinality({r \in DOMAIN requests :
                   IsCreate(r) /\ requests[r].key = k /\ requests[r].target # Null}) <= 1

\* the rows a create was asked to attach to its wishlist
RequestedRows(r) ==
  SeqToBag(ItemRows(requests[r].items,
                    IF requests[r].op = "createWishlist" THEN UnknownProduct ELSE Null))

\* C7: once a create has ended and its inserts have landed, the store holds
\* the wishlist with all the requested items, or neither
C7_CreateAllOrNothing ==
  \A r \in DOMAIN requests :
    (IsCreate(r) /\ requests[r].pc = "done")
      => \/ requests[r].target = Null
         \/ ItemsOfWishlist(requests[r].target) = RequestedRows(r)

\* a kiosk create with a key answered 201, and a later kiosk create with the
\* same key and payload
Replayed(r1, r2) ==
  /\ requests[r1].op = "createWishlist" /\ requests[r2].op = "createWishlist"
  /\ requests[r1].key # Null
  /\ requests[r1].resp.code = CREATED
  /\ r1 \in requests[r2].after
  /\ requests[r2].key = requests[r1].key
  /\ requests[r2].user_id = requests[r1].user_id
  /\ requests[r2].items = requests[r1].items
  /\ requests[r2].source = requests[r1].source
  /\ requests[r2].metadata = requests[r1].metadata

\* C8: after a create with key K was answered 201, a later create with K and
\* the same payload is answered 200 with the body of the first response, and
\* inserts no idempotency record, no wishlist and no item
C8_ReplayIsVerbatim ==
  \A r1, r2 \in DOMAIN requests :
    Replayed(r1, r2)
      => /\ requests[r2].pc = "done"
         /\ requests[r2].resp.code = OK
         /\ requests[r2].resp.body = requests[r1].resp.body
         /\ requests[r2].resp.body.wishlist_id = requests[r1].target
         /\ requests[r2].target = Null
         /\ requests[r2].tval = Null
         /\ requests[r2].pending = EmptyBag

C8_Witness ==
  \E r1, r2 \in DOMAIN requests :
    /\ Replayed(r1, r2)
    /\ requests[r2].resp.code = OK
    /\ requests[r2].resp.body.qr_code_token # Null
    /\ Len(wishlists) = 1

\* ------------------------------------------------- lifecycle claims
\* C5: a step changes a status to PROCESSING only from a stored ACTIVE with
\* the token unused; a CANCELLED or EXPIRED wishlist never becomes PROCESSING
C5_ProcessingOnlyFromActive ==
  [][\A wid \in DOMAIN wishlists :
       (wishlists'[wid].status = "PROCESSING" /\ wishlists[wid].status # "PROCESSING")
         => /\ wishlists[wid].status = "ACTIVE"
            /\ wishlists[wid].qr_code_used_at = Null]_vars

\* the create of wishlist wid has inserted all of its items
Stocked(wid) ==
  \A r \in DOMAIN requests :
    (IsCreate(r) /\ requests[r].target = wid) => requests[r].pending = EmptyBag

\* C6: no step changes the items of a wishlist whose stored status is not
\* ACTIVE
C6_ItemsFrozenOutsideActive ==
  [][\A wid \in DOMAIN wishlists :
       (Stocked(wid) /\ wishlists[wid].status # "ACTIVE")
         => items'[wid] = items[wid]]_vars

\* C9: a wishlist whose qr_code_used_at is set is not ACTIVE
C9_UsedImpliesNotActive ==
  \A wid \in DOMAIN wishlists :
    wishlists[wid].qr_code_used_at # Null => wishlists[wid].status # "ACTIVE"

C9_Witness ==
  \E wid \in DOMAIN wishlists :
    /\ wishlists[wid].qr_code_used_at # Null
    /\ wishlists[wid].status = "CANCELLED"

\* ------------------------------------------------- contracts of the operations
\* a step in which a request arrives; the new request is the last one
Arrival == Len(requests') > Len(requests)

\* a step that keeps the requests at their positions
SamePositions == Len(requests') >= Len(requests)

\* request r is answered in this step with code
Answers(r, code) ==
  /\ SamePositions
  /\ r \in DOMAIN requests
  /\ requests[r].resp.code = 0
  /\ requests'[r].resp.code = code

\* C11: a redeem passes its checks only when the wishlist it read has the
\* presented token, no qr_code_used_at, now not after expires_at and status
\* ACTIVE; its write sets qr_code_used_at = now and status = PROCESSING and
\* changes no other field and no item; it is answered 200 only after that
\* write, and the response shows the wishlist with status PROCESSING and its
\* items
C11_RedeemContract ==
  [][/\ Arrival =>
          LET q == requests'[Len(requests')]
              w == FindByPk(q.target)
          IN (q.op \in {"fetchWishlist", "fetchByQRToken"} /\ q.pc = "mark")
               => /\ w.qr_code_token = q.qr_token
                  /\ w.qr_code_used_at = Null
                  /\ ~(now > w.expires_at)
                  /\ w.status = "ACTIVE"
                  /\ q.snap = w
                  /\ q.tval = now
     /\ \A r \in DOMAIN requests :
          (SamePositions /\ IsRedeem(r) /\ requests'[r].pc = "refetch"
             /\ requests[r].pc # "refetch")
            => /\ requests[r].pc = "mark"
               /\ wishlists' = [wishlists EXCEPT ![requests[r].target] =
                                  [@ EXCEPT !.qr_code_used_at = requests[r].tval,
                                            !.status = "PROCESSING"]]
               /\ items' = items
     /\ \A r \in DOMAIN requests :
          (IsRedeem(r) /\ Answers(r, OK))
            => /\ requests[r].pc = "refetch"
               /\ requests'[r].resp.body.wishlist.status = "PROCESSING"
               /\ requests'[r].resp.body.wishlist.qr_code_used_at = requests[r].tval
               /\ requests'[r].resp.body.items = items[requests[r].target]]_vars

\* every request on the wishlist of redeem r other than the creates was
\* answered before r arrived: no other request reads or writes the wishlist
\* between the arrival of r and its answer
RedeemsAlone(r) ==
  \A q \in DOMAIN requests \ {r} :
    (requests[q].target = requests[r].target /\ ~IsCreate(q))
      => q \in requests[r].after

\* C11, with the response as the code builds it: a redeem passes its checks
\* only when the wishlist it read has the presented token, no qr_code_used_at,
\* now not after expires_at and status ACTIVE; its write sets qr_code_used_at
\* = now and status = PROCESSING and changes no other field and no item; it
\* is answered 200 only after that write, and the response shows the wishlist
\* and its items as stored when they are read again after the write: with
\* status PROCESSING and qr_code_used_at = now when no other request on the
\* wishlist has run since the redeem arrived
C11_RedeemContractReread ==
  [][/\ Arrival =>
          LET q == requests'[Len(requests')]
              w == FindByPk(q.target)
          IN (q.op \in {"fetchWishlist", "fetchByQRToken"} /\ q.pc = "mark")
               => /\ w.qr_code_token = q.qr_token
                  /\ w.qr_code_used_at = Null
                  /\ ~(now > w.expires_at)
                  /\ w.status = "ACTIVE"
                  /\ q.snap = w
                  /\ q.tval = now
     /\ \A r \in DOMAIN requests :
          (SamePositions /\ IsRedeem(r) /\ requests'[r].pc = "refetch"
             /\ requests[r].pc # "refetch")
            => /\ requests[r].pc = "mark"
               /\ wishlists' = [wishlists EXCEPT ![requests[r].target] =
                                  [@ EXCEPT !.qr_code_used_at = requests[r].tval,
                                            !.status = "PROCESSING"]]
               /\ items' = items
     /\ \A r \in DOMAIN requests :
          (IsRedeem(r) /\ Answers(r, OK))
            => /\ requests[r].pc = "refetch"
               /\ requests'[r].resp.body.wishlist = wishlists[requests[r].target]
               /\ requests'[r].resp.body.items = items[requests[r].target]
               /\ RedeemsAlone(r) =>
                    /\ requests'[r].resp.body.wishlist.status = "PROCESSING"
                    /\ requests'[r].resp.body.wishlist.qr_code_used_at = requests[r].tval]_vars

C11_Witness ==
  \E r \in DOMAIN requests :
    /\ requests[r].op = "fetchWishlist"
    /\ requests[r].resp.code = OK
    /\ RedeemsAlone(r)
    /\ requests[r].resp.body.wishlist.status = "PROCESSING"
    /\ requests[r].resp.body.items # EmptyBag
    /\ wishlists[requests[r].target].qr_code_used_at = requests[r].tval

\* the requests that read one wishlist or try to redeem it
ReadOps == {"getWishlist", "mobileGetWishlist", "generateQRCode", "fetchWishlist",
            "fetchByQRToken"}

\* the checks of request q that come before the expiry check let row w through
Admitted(q, w) ==
  /\ q.target # Null
  /\ w # NoRow
  /\ q.op \in {"mobileGetWishlist", "generateQRCode", "mobileUpdateWishlist",
              "mobileDeleteWishlist"} => q.user_id = w.user_id
  /\ q.op \in {"fetchWishlist", "fetchByQRToken"} => q.qr_token = w.qr_code_token

\* row w is ACTIVE and its expires_at has passed at time t
Overdue(w, t) == w.status = "ACTIVE" /\ t > w.expires_at

\* C12: the next read or redeem attempt on an ACTIVE wishlist whose
\* expires_at has passed persists status = EXPIRED and is answered 410; no
\* read returns the wishlist with status ACTIVE
C12_LazyExpiration ==
  [][/\ Arrival =>
          LET q == requests'[Len(requests')]
              w == FindByPk(q.target)
          IN (q.op \in ReadOps /\ Admitted(q, w) /\ Overdue(w, now))
               => /\ q.pc = "expire"
                  /\ q.resp.code # OK
     /\ \A r \in DOMAIN requests :
          (SamePositions /\ requests[r].op \in ReadOps /\ requests[r].pc = "expire"
             /\ requests'[r].pc = "done")
            => /\ requests'[r].resp.code = GONE
               /\ wishlists'[requests[r].target].status = "EXPIRED"]_vars

\* C13: generateQRCode or a redeem on an ACTIVE wishlist with an unused token
\* and now > expires_at is answered 410 without token, wishlist or items; its
\* write sets status = EXPIRED and nothing else, so qr_code_used_at stays
\* null; a getWishlist that follows shows status EXPIRED
C13_ExpiredOnAccess ==
  [][/\ Arrival =>
          LET q == requests'[Len(requests')]
              w == FindByPk(q.target)
          IN /\ ( /\ q.op \in {"generateQRCode", "fetchWishlist", "fetchByQRToken"}
                  /\ Admitted(q, w) /\ Overdue(w, now) /\ w.qr_code_used_at = Null )
               => (q.pc = "expire" /\ q.resp.code = 0)
             /\ ( /\ q.op \in {"getWishlist", "mobileGetWishlist"}
                  /\ Admitted(q, w)
                  /\ requests # << >>
                  /\ requests[Len(requests)].op \in
                       {"generateQRCode", "fetchWishlist", "fetchByQRToken"}
                  /\ requests[Len(requests)].resp.code = GONE )
               => /\ q.resp.code = OK
                  /\ q.resp.body.wishlist.status = "EXPIRED"
                  /\ q.resp.body.wishlist.qr_code_used_at = Null
     /\ \A r \in DOMAIN requests :
          ( /\ SamePositions
            /\ requests[r].op \in {"generateQRCode", "fetchWishlist", "fetchByQRToken"}
            /\ requests[r].pc = "expire" /\ requests'[r].pc # "expire" )
            => /\ requests'[r].pc = "done"
               /\ requests'[r].resp.code = GONE
               /\ requests'[r].resp.body.qr_code_token = Null
               /\ requests'[r].resp.body.items = EmptyBag
               /\ requests'[r].resp.body.wishlist = NoRow
               /\ wishlists' = [wishlists EXCEPT ![requests[r].target].status = "EXPIRED"]
               /\ wishlists'[requests[r].target].qr_code_used_at = Null
               /\ items' = items]_vars

C13_Witness ==
  /\ Len(requests) = 2
  /\ requests[1].op = "generateQRCode"
  /\ requests[1].resp.code = GONE
  /\ requests[2].op = "getWishlist"
  /\ requests[2].resp.code = OK
  /\ requests[2].resp.body.wishlist.status = "EXPIRED"

\* a cancellation of wishlist wid has been answered with success
CancelReturned(wid) ==
  \E r \in DOMAIN requests :
    /\ requests[r].op \in {"posCancelWishlist", "cancelWishlist", "mobileDeleteWishlist"}
    /\ requests[r].target = wid
    /\ requests[r].resp.code = OK

\* C14: a step writes status COMPLETED only over a stored PROCESSING; once a
\* cancellation of the wishlist has returned success, no step makes it
\* COMPLETED
C14_CompletedOnlyFromProcessing ==
  [][\A wid \in DOMAIN wishlists :
       (wishlists'[wid].status = "COMPLETED" /\ wishlists[wid].status # "COMPLETED")
         => /\ wishlists[wid].status = "PROCESSING"
            /\ ~CancelReturned(wid)]_vars

\* C15: completeWishlist goes on to its write only when the wishlist it read
\* is PROCESSING, and is answered 400 without a write in every other status;
\* the write sets status = COMPLETED, processed_at = now, processed_by = the
\* given value or 'POS', and metadata.shopify_order_id, keeps the other
\* metadata keys, every other field and the items, and is answered 200
C15_CompleteContract ==
  [][/\ Arrival =>
          LET q == requests'[Len(requests')]
              w == FindByPk(q.target)
          IN (q.op = "completeWishlist" /\ w # NoRow)
               => /\ wishlists' = wishlists /\ items' = items
                  /\ IF w.status = "PROCESSING"
                     THEN q.pc = "write" /\ q.resp.code = 0 /\ q.tval = now
                     ELSE q.pc = "done" /\ q.resp.code = BAD_REQUEST
     /\ \A r \in DOMAIN requests :
          (requests[r].op = "completeWishlist" /\ Answers(r, OK))
            => LET q == requests[r]
               IN /\ wishlists[q.target].status = "PROCESSING"
                  /\ wishlists' = [wishlists EXCEPT ![q.target] =
                       [@ EXCEPT !.status = "COMPLETED",
                                 !.processed_at = q.tval,
                                 !.processed_by = IF q.processed_by = "" THEN "POS"
                                                  ELSE q.processed_by,
                                 !.metadata = [@ EXCEPT !.shopify_order_id =
                                                 q.shopify_order_id]]]
                  /\ requests'[r].resp.body.wishlist = wishlists'[q.target]
                  /\ items' = items
     /\ \A r \in DOMAIN requests :
          ( /\ SamePositions /\ requests[r].op = "completeWishlist"
            /\ requests[r].pc # "done" /\ requests'[r].pc = "done" )
            => requests'[r].resp.code = OK]_vars

C15_Witness ==
  \E r \in DOMAIN requests :
    /\ requests[r].op = "completeWishlist"
    /\ requests[r].resp.code = OK
    /\ wishlists[1].status = "COMPLETED"
    /\ wishlists[1].processed_by = "POS"
    /\ wishlists[1].metadata.custom = 3
    /\ wishlists[1].metadata.shopify_order_id = 7

CancelOps == {"posCancelWishlist", "cancelWishlist", "mobileDeleteWishlist"}

\* C16: a cancellation or an expiration of an existing wishlist goes on to
\* its write whatever status it read, is answered 200, and leaves status
\* CANCELLED, respectively EXPIRED
C16_CancelExpireAlwaysSucceed ==
  [][/\ Arrival =>
          LET q == requests'[Len(requests')]
              w == FindByPk(q.target)
          IN ((q.op \in CancelOps \/ q.op = "expireWishlist") /\ Admitted(q, w))
               => q.pc = "write" /\ q.resp.code = 0
     /\ \A r \in DOMAIN requests :
          ( /\ SamePositions
            /\ (requests[r].op \in CancelOps \/ requests[r].op = "expireWishlist")
            /\ requests[r].pc = "write" /\ requests'[r].pc # "write" )
            => /\ requests'[r].pc = "done"
               /\ requests'[r].resp.code = OK
               /\ wishlists'[requests[r].target].status =
                    IF requests[r].op = "expireWishlist" THEN "EXPIRED" ELSE "CANCELLED"]_vars

C16_Witness ==
  /\ Len(requests) = 2
  /\ requests[1].op = "completeWishlist"
  /\ requests[1].resp.code = OK
  /\ requests[2].op = "cancelWishlist"
  /\ requests[2].resp.code = OK
  /\ requests[2].snap.status = "COMPLETED"
  /\ wishlists[1].status = "CANCELLED"

UpdateOps == {"updateWishlistItems", "mobileUpdateWishlist"}

\* C17: an update of the items of a wishlist that is not ACTIVE, through
\* either entry point, is answered 400 at its status check and writes
\* nothing: the items, the metadata and every other field stay as they are
C17_UpdateRejectedOutsideActive ==
  [][/\ Arrival =>
          LET q == requests'[Len(requests')]
              w == FindByPk(q.target)
          IN (q.op \in UpdateOps /\ Admitted(q, w) /\ w.status # "ACTIVE")
               => /\ q.pc = "done"
                  /\ q.resp.code = BAD_REQUEST
                  /\ wishlists' = wishlists
                  /\ items' = items
     /\ \A r \in DOMAIN requests :
          ( /\ SamePositions /\ requests[r].op \in UpdateOps
            /\ requests'[r] # requests[r]
            /\ (wishlists' # wishlists \/ items' # items \/ Answers(r, OK)) )
            => requests[r].snap.status = "ACTIVE"]_vars

C17_Witness ==
  /\ Len(requests) = 2
  /\ requests[1].op = "mobileUpdateWishlist"
  /\ requests[1].resp.code = BAD_REQUEST
  /\ requests[2].op = "updateWishlistItems"
  /\ requests[2].resp.code = BAD_REQUEST
  /\ wishlists[1].status = "PROCESSING"
  /\ items[1] # EmptyBag

\* C18: generateQRCode on a wishlist that is not ACTIVE is answered 400 at
\* its status check, without a token and without a write, whether or not
\* expires_at has passed
C18_QRRejectedOutsideActive ==
  [][Arrival =>
       LET q == requests'[Len(requests')]
           w == FindByPk(q.target)
       IN (q.op = "generateQRCode" /\ Admitted(q, w) /\ w.status # "ACTIVE")
            => /\ q.pc = "done"
               /\ q.resp.code = BAD_REQUEST
               /\ q.resp.body.qr_code_token = Null
               /\ q.resp.body.items = EmptyBag
               /\ wishlists' = wishlists
               /\ items' = items]_vars

C18_Witness ==
  \E r \in DOMAIN requests :
    /\ Exists(1)
    /\ requests[r].op = "generateQRCode"
    /\ requests[r].user_id = wishlists[1].user_id
    /\ requests[r].resp.code = BAD_REQUEST
    /\ wishlists[1].status = "CANCELLED"
    /\ now > wishlists[1].expires_at
    /\ r = Len(requests)

\* update r of the items of a wishlist arrived after every other update of
\* the wishlist that has arrived so far was answered
OverlapsNoUpdate(r) ==
  \A q \in DOMAIN requests \ {r} :
    (requests[q].target = requests[r].target /\ requests[q].op \in UpdateOps)
      => q \in requests[r].after

\* C19: when an update of the items that overlaps no other update of the
\* wishlist is answered 200, the items of the wishlist are exactly the rows of
\* its payload, and so are the items of the response
C19_UpdateReplacesItems ==
  [][\A r \in DOMAIN requests :
       (requests[r].op \in UpdateOps /\ Answers(r, OK) /\ requests[r].items.isArray
          /\ OverlapsNoUpdate(r))
         => /\ items'[requests[r].target] = SeqToBag(ItemRows(requests[r].items, Null))
            /\ requests'[r].resp.body.items = SeqToBag(ItemRows(requests[r].items, Null))]_vars

\* C20: every wishlist has the qr_code_token its create was given, and no
\* step changes it; a generateQRCode answered 200 returns that token and
\* writes nothing
C20_TokenStable ==
  [][/\ \A wid \in DOMAIN wishlists :
          /\ wishlists[wid].qr_code_token # Null
          /\ wishlists'[wid].qr_code_token = wishlists[wid].qr_code_token
          /\ \A c \in DOMAIN requests :
               (IsCreate(c) /\ requests[c].target = wid)
                 => requests[c].token = wishlists[wid].qr_code_token
     /\ Arrival =>
          LET q == requests'[Len(requests')]
          IN (q.op = "generateQRCode" /\ q.resp.code = OK)
               => /\ q.resp.body.qr_code_token = wishlists[q.target].qr_code_token
                  /\ wishlists' = wishlists
                  /\ items' = items]_vars

C20_Witness ==
  \E r1, r2 \in DOMAIN requests :
    /\ r1 < r2
    /\ requests[r1].op = "generateQRCode" /\ requests[r2].op = "generateQRCode"
    /\ requests[r1].resp.code = OK /\ requests[r2].resp.code = OK
    /\ requests[r1].resp.body.qr_code_token = wishlists[1].qr_code_token
    /\ requests[r2].resp.body.qr_code_token = wishlists[1].qr_code_token

\* ------------------------------------------------- tokens and keys
\* C21: no two wishlists in the store have the same qr_code_token
C21_TokensUnique ==
  \A w1, w2 \in DOMAIN wishlists :
    w1 # w2 => wishlists[w1].qr_code_token # wishlists[w2].qr_code_token

\* a create without a key drew the token of an existing wishlist and was
\* refused by the unique index, and the store holds one wishlist
C21_Witness ==
  \E r \in DOMAIN requests :
    /\ IsCreate(r)
    /\ requests[r].key = Null
    /\ requests[r].resp = UniqueConstraintError
    /\ requests[r].target = Null
    /\ Len(wishlists) = 1

\* C22: once the idempotency record of a key is COMPLETED, no step changes its
\* status, its wishlist_id or its response_data
C22_CompletedRecordFrozen ==
  [][\A k \in Keys :
       idempotency[k].status = "COMPLETED" => idempotency'[k] = idempotency[k]]_vars

\* the record is COMPLETED, its wishlist has been cancelled since, and a later
\* create with the key was answered from the record
C22_Witness ==
  \E k \in Keys, r \in DOMAIN requests :
    /\ idempotency[k].status = "COMPLETED"
    /\ wishlists[idempotency[k].wishlist_id].status = "CANCELLED"
    /\ requests[r].op = "createWishlist"
    /\ requests[r].key = k
    /\ requests[r].resp.code = OK
    /\ requests[r].resp.body = idempotency[k].response_data
    /\ requests[r].resp.body.wishlist.status = "ACTIVE"

\* ------------------------------------------------- access claims
\* C23: a redemption by id and token whose token is not the token of the
\* wishlist of that id is answered exactly as an earlier redemption with the
\* same token and an id that no wishlist has
C23_MismatchHidesExistence ==
  [][Arrival =>
       LET q == requests'[Len(requests')]
       IN \A r \in DOMAIN requests :
            ( /\ q.op = "fetchWishlist" /\ requests[r].op = "fetchWishlist"
              /\ q.qr_token = requests[r].qr_token
              /\ Exists(q.wishlistId)
              /\ wishlists[q.wishlistId].qr_code_token # q.qr_token
              /\ ~Exists(requests[r].wishlistId) )
            => q.resp = requests[r].resp]_vars

\* C24: a redemption by id and token is answered 404 exactly when no wishlist
\* has the presented token, and 403 when the token is that of a wishlist
\* other than the one of the id
C24_NotFoundByToken ==
  [][Arrival =>
       LET q == requests'[Len(requests')]
           holders == {w \in DOMAIN wishlists : wishlists[w].qr_code_token = q.qr_token}
       IN (q.op = "fetchWishlist" /\ q.qr_token # Null)
            => /\ (q.resp.code = NOT_FOUND) <=> (holders = {})
               /\ (holders # {} /\ q.wishlistId \notin holders)
                    => q.resp.code = FORBIDDEN]_vars

MobileOps == {"mobileGetWishlist", "mobileUpdateWishlist", "mobileDeleteWishlist",
              "generateQRCode"}

\* C25: a mobile get, update, delete or generateQRCode on a wishlist of
\* another user is answered 404 at once and writes nothing, and its response
\* equals that of the same operation on an id that no wishlist has
C25_ForeignWishlistNotFound ==
  [][Arrival =>
       LET q == requests'[Len(requests')]
       IN (q.op \in MobileOps /\ q.user_id # Null)
            => /\ (~Exists(q.wishlistId) \/ wishlists[q.wishlistId].user_id # q.user_id)
                    => /\ q.pc = "done"
                       /\ q.resp.code = NOT_FOUND
                       /\ wishlists' = wishlists
                       /\ items' = items
               /\ \A r \in DOMAIN requests :
                    ( /\ requests[r].op = q.op
                      /\ requests[r].user_id # Null
                      /\ ~Exists(requests[r].wishlistId)
                      /\ Exists(q.wishlistId)
                      /\ wishlists[q.wishlistId].user_id # q.user_id )
                    => q.resp = requests[r].resp]_vars

C25_Witness ==
  /\ Len(requests) = 3
  /\ requests[2].op = "mobileDeleteWishlist" /\ requests[3].op = "mobileDeleteWishlist"
  /\ requests[2].wishlistId = 2 /\ requests[3].wishlistId = 1
  /\ requests[2].user_id = 2 /\ requests[3].user_id = 2
  /\ requests[3].resp.code = NOT_FOUND
  /\ requests[3].resp = requests[2].resp
  /\ Exists(1)
  /\ wishlists[1].user_id = 1
  /\ wishlists[1].status = "ACTIVE"

\* C26: a create without owner id, or whose items are missing, not an array
\* or empty, is answered 400 at once and inserts no wishlist, no item and no
\* idempotency record, with or without a key
C26_InvalidCreateRejected ==
  [][Arrival =>
       LET q == requests'[Len(requests')]
       IN ( /\ q.op \in {"createWishlist", "mobileCreateWishlist"}
            /\ (q.user_id = Null \/ ~q.items.isArray \/ Len(q.items.elems) = 0) )
            => /\ q.pc = "done"
               /\ q.resp.code = BAD_REQUEST
               /\ wishlists' = wishlists
               /\ items' = items
               /\ idempotency' = idempotency]_vars

C26_Witness ==
  \E r \in DOMAIN requests :
    /\ requests[r].op = "createWishlist"
    /\ requests[r].user_id # Null
    /\ requests[r].items = ItemsOf(<< >>)
    /\ requests[r].key \in Keys
    /\ requests[r].resp.code = BAD_REQUEST
    /\ idempotency[requests[r].key].status = "NONE"
    /\ wishlists = << >>

\* C27: a cancellation (general, POS or mobile delete) or an expiration
\* removes no wishlist and no item; its write changes the status of the
\* wishlist and, for a POS cancel with a reason, metadata.cancellation_reason,
\* and nothing else
C27_CancelExpireFrame ==
  [][\A r \in DOMAIN requests :
       ( /\ SamePositions
         /\ (requests[r].op \in CancelOps \/ requests[r].op = "expireWishlist")
         /\ requests'[r] # requests[r] )
         => LET q == requests[r]
            IN /\ items' = items
               /\ wishlists' = [wishlists EXCEPT ![q.target] =
                    [@ EXCEPT !.status = IF q.op = "expireWishlist" THEN "EXPIRED"
                                         ELSE "CANCELLED",
                              !.metadata = IF q.op = "posCancelWishlist" /\ q.reason # Null
                                           THEN [@ EXCEPT !.cancellation_reason = q.reason]
                                           ELSE @]]]_vars

\* C28: getWishlistStatus writes nothing and reports the stored status,
\* qr_code_used = (qr_code_used_at is set), processed = (processed_at is set)
\* and expired = (now > expires_at)
C28_StatusQueryReadsOnly ==
  [][Arrival =>
       LET q == requests'[Len(requests')]
           w == FindByPk(q.wishlistId)
       IN (q.op = "getWishlistStatus" /\ w # NoRow)
            => /\ q.pc = "done"
               /\ q.resp.code = OK
               /\ q.resp.body.status = w.status
               /\ q.resp.body.qr_code_used = (w.qr_code_used_at # Null)
               /\ q.resp.body.processed = (w.processed_at # Null)
               /\ q.resp.body.expired = (now > w.expires_at)
               /\ wishlists' = wishlists
               /\ items' = items]_vars

\* a wishlist past its expires_at is reported expired and is still stored
\* ACTIVE
C28_Witness ==
  \E r \in DOMAIN requests :
    /\ requests[r].op = "getWishlistStatus"
    /\ requests[r].resp.code = OK
    /\ requests[r].resp.body.expired
    /\ requests[r].resp.body.status = "ACTIVE"
    /\ wishlists[1].status = "ACTIVE"
    /\ now > wishlists[1].expires_at

\* C29: a fetchWishlist that presents the token of a wishlist past its
\* expires_at whose qr_code_used_at is not set goes on to the expiration and
\* writes nothing in between; its expiration answers 410, leaves
\* qr_code_used_at as it was and, with the token still unused, leaves the
\* stored status EXPIRED, whatever the other attempts have done meanwhile
C29_ExpiredRedeemsAllFail ==
  [][/\ Arrival =>
          LET q == requests'[Len(requests')]
              w == FindByPk(q.wishlistId)
          IN ( /\ q.op = "fetchWishlist"
               /\ w # NoRow
               /\ q.qr_token # Null
               /\ w.qr_code_token = q.qr_token
               /\ w.qr_code_used_at = Null
               /\ now > w.expires_at )
               => /\ q.pc = "expire"
                  /\ wishlists' = wishlists
                  /\ items' = items
     /\ \A r \in DOMAIN requests :
          ( /\ SamePositions
            /\ requests[r].op = "fetchWishlist"
            /\ requests[r].pc = "expire"
            /\ requests'[r] # requests[r] )
            => LET wid == requests[r].target
               IN /\ requests'[r].pc = "done"
                  /\ requests'[r].resp.code = GONE
                  /\ wishlists'[wid].qr_code_used_at = wishlists[wid].qr_code_used_at
                  /\ items' = items
                  /\ wishlists[wid].qr_code_used_at = Null
                       => wishlists'[wid].status = "EXPIRED"]_vars

\* two attempts that both read the wishlist ACTIVE and past its expiry have
\* both been answered 410
C29_Witness ==
  /\ Exists(1)
  /\ wishlists[1].status = "EXPIRED"
  /\ wishlists[1].qr_code_used_at = Null
  /\ \E r1, r2 \in DOMAIN requests :
       /\ r1 < r2
       /\ \A r \in {r1, r2} :
            /\ requests[r].op = "fetchWishlist"
            /\ requests[r].resp.code = GONE
            /\ requests[r].snap.status = "ACTIVE"

\* the routes of the POS router and the handler each one names
PosHandlerOps == {"fetchWishlist", "completeWishlist", "posCancelWishlist", "getWishlistStatus"}

\* C30: a request to a POS route changes no wishlist, item or idempotency
\* record in the middleware; with POS_SECRET_TOKEN set it is answered 401 when
\* it carries neither header, 403 when the header it carries differs from the
\* secret, and handed to its route when the header equals the secret; without
\* the secret it is answered 500 in production and handed to its route
\* otherwise. A POS handler starts only for the newest request, handed on by
\* the middleware, whose header equals the secret when one is set
C30_PosAuthGuardsHandlers ==
  [][Arrival =>
       LET q == requests'[Len(requests')]
           h == IF q.x_pos_secret # Null THEN q.x_pos_secret ELSE q.x_pos_token
       IN /\ q.op = "pos"
               => /\ wishlists' = wishlists
                  /\ items' = items
                  /\ idempotency' = idempotency
                  /\ (q.posSecret # Null /\ h = Null)
                       => q.pc = "done" /\ q.resp.code = UNAUTHORIZED
                  /\ (q.posSecret # Null /\ h # Null /\ h # q.posSecret)
                       => q.pc = "done" /\ q.resp.code = FORBIDDEN
                  /\ (q.posSecret # Null /\ h = q.posSecret)
                       => q.pc = "next" /\ q.resp = NoResp
                  /\ (q.posSecret = Null /\ q.production)
                       => q.pc = "done" /\ q.resp.code = INTERNAL_SERVER_ERROR
                  /\ (q.posSecret = Null /\ ~q.production)
                       => q.pc = "next" /\ q.resp = NoResp
          /\ q.op \in PosHandlerOps
               => /\ Len(requests) > 0
                  /\ LET a == requests[Len(requests)]
                     IN /\ a.op = "pos"
                        /\ a.resp = NoResp
                        /\ a.posSecret # Null
                             => \/ a.x_pos_secret = a.posSecret
                                \/ a.x_pos_secret = Null /\ a.x_pos_token = a.posSecret
                        /\ a.posSecret = Null => ~a.production]_vars

\* with the secret set, a request with a wrong x-pos-secret and the right
\* x-pos-token has been refused, and one with the right x-pos-token alone has
\* redeemed the wishlist
C30_Witness ==
  /\ Exists(1)
  /\ wishlists[1].status = "PROCESSING"
  /\ \E r1, r2 \in DOMAIN requests :
       /\ requests[r1].op = "pos"
       /\ requests[r1].posSecret = 1
       /\ requests[r1].x_pos_secret = 2
       /\ requests[r1].x_pos_token = 1
       /\ requests[r1].resp.code = FORBIDDEN
       /\ requests[r2].op = "pos"
       /\ requests[r2].posSecret = 1
       /\ requests[r2].x_pos_secret = Null
       /\ requests[r2].x_pos_token = 1
       /\ requests[r2].pc = "next"
       /\ r2 + 1 \in DOMAIN requests
       /\ requests[r2 + 1].op = "fetchWishlist"
       /\ requests[r2 + 1].resp.code = OK

\* C31: when the only two updates of the items of a wishlist, with item sets
\* S1 and S2, have both been answered 200, the items of the wishlist are
\* exactly the rows of S1 or exactly the rows of S2
C31_OverlappingUpdatesLeaveOneSet ==
  \A c, r1, r2 \in DOMAIN requests :
    ( /\ IsCreate(c)
      /\ r1 # r2
      /\ \A r \in {r1, r2} :
           /\ requests[r].op \in UpdateOps
           /\ requests[r].target = requests[c].target
           /\ c \in requests[r].after
           /\ requests[r].items.isArray
           /\ requests[r].resp.code = OK
      /\ \A q \in DOMAIN requests \ {r1, r2} : requests[q].op \notin UpdateOps )
      => items[requests[c].target] \in
           {SeqToBag(ItemRows(requests[r1].items, Null)),
            SeqToBag(ItemRows(requests[r2].items, Null))}

\* C32: a fetchWishlist answered 400, 403, 404 or 409 writes nothing; one
\* answered 410 changes at most the status of the wishlist it names, to
\* EXPIRED, and nothing else in the store
C32_FailedRedeemFrame ==
  [][/\ Arrival =>
          LET q == requests'[Len(requests')]
          IN (q.op = "fetchWishlist" /\ q.resp.code \notin {0, OK})
               => /\ q.resp.code \in {BAD_REQUEST, FORBIDDEN, NOT_FOUND, CONFLICT}
                  /\ wishlists' = wishlists
                  /\ items' = items
                  /\ idempotency' = idempotency
     /\ \A r \in DOMAIN requests :
          (requests[r].op = "fetchWishlist" /\ ~Answers(r, 0) /\ ~Answers(r, OK)
             /\ SamePositions /\ requests[r].resp.code = 0)
            => /\ Answers(r, GONE)
               /\ items' = items
               /\ idempotency' = idempotency
               /\ \E s \in {wishlists[requests[r].target].status, "EXPIRED"} :
                    wishlists' = [wishlists EXCEPT ![requests[r].target].status = s]]_vars

\* one attempt on an expired wishlist has been answered 410 and has stored
\* EXPIRED, and a later one with a wrong token has been answered 403
C32_Witness ==
  /\ Exists(1)
  /\ wishlists[1].status = "EXPIRED"
  /\ \E r1, r2 \in DOMAIN requests :
       /\ requests[r1].op = "fetchWishlist"
       /\ requests[r1].resp.code = GONE
       /\ requests[r1].snap.status = "ACTIVE"
       /\ requests[r2].op = "fetchWishlist"
       /\ requests[r2].resp.code = FORBIDDEN
       /\ r1 \in requests[r2].after

\* the statuses the state machine ends in
TerminalStatuses == {"COMPLETED", "CANCELLED", "EXPIRED"}

\* the operations other than the cancellations and the expiration
NonSettlingOps ==
  {"fetchWishlist", "generateQRCode", "completeWishlist"} \cup UpdateOps

\* this step is a store access of request r
Actor(r) ==
  /\ SamePositions
  /\ r \in DOMAIN requests
  /\ requests'[r] # requests[r]

\* C33 as stated: with the requests one after the other, a step of a redeem,
\* a generateQRCode, a completion or an update of the items leaves the status
\* of a wishlist that is COMPLETED, CANCELLED or EXPIRED as it is
C33_TerminalStatusKept ==
  [][\A r \in DOMAIN requests :
       ( /\ Actor(r)
         /\ requests[r].op \in NonSettlingOps
         /\ requests[r].target \in DOMAIN wishlists
         /\ wishlists[requests[r].target].status \in TerminalStatuses )
         => wishlists'[requests[r].target].status = wishlists[requests[r].target].status]_vars

\* C33 amended: the same, except that a redeem of a CANCELLED wishlist whose
\* token is unused and whose expires_at has passed is answered 410 and stores
\* EXPIRED
C33_TerminalStatusKeptButLazyExpiry ==
  [][\A r \in DOMAIN requests :
       ( /\ Actor(r)
         /\ requests[r].op \in NonSettlingOps
         /\ requests[r].target \in DOMAIN wishlists
         /\ wishlists[requests[r].target].status \in TerminalStatuses )
         => LET w == wishlists[requests[r].target]
                status == wishlists'[requests[r].target].status
            IN \/ status = w.status
               \/ /\ requests[r].op = "fetchWishlist"
                  /\ w.status = "CANCELLED"
                  /\ w.qr_code_used_at = Null
                  /\ now > w.expires_at
                  /\ status = "EXPIRED"
                  /\ requests'[r].resp.code = GONE]_vars

\* a redeem of a cancelled wishlist past its expiry has stored EXPIRED, and a
\* completion that followed it was refused and left it EXPIRED
C33_Witness ==
  /\ Exists(1)
  /\ wishlists[1].status = "EXPIRED"
  /\ \E r1, r2 \in DOMAIN requests :
       /\ r1 < r2
       /\ requests[r1].op = "fetchWishlist"
       /\ requests[r1].snap.status = "CANCELLED"
       /\ requests[r1].resp.code = GONE
       /\ requests[r2].op = "completeWishlist"
       /\ requests[r2].resp.code = BAD_REQUEST

\* C34: a wishlist whose status is PROCESSING or COMPLETED, or whose
\* processed_at is set, has its qr_code_used_at set
C34_ProcessedImpliesRedeemed ==
  \A wid \in DOMAIN wishlists :
    ( \/ wishlists[wid].status \in {"PROCESSING", "COMPLETED"}
      \/ wishlists[wid].processed_at # Null )
      => wishlists[wid].qr_code_used_at # Null

\* a wishlist completed and then cancelled: processed_at is set, the status
\* is neither PROCESSING nor COMPLETED
C34_Witness ==
  /\ Exists(1)
  /\ wishlists[1].status = "CANCELLED"
  /\ wishlists[1].processed_at # Null
  /\ wishlists[1].qr_code_used_at # Null

\* C35: once a kiosk create that inserted the idempotency record of its key
\* has been answered, the record is COMPLETED or FAILED
C35_RecordSettledOnReturn ==
  \A r \in DOMAIN requests :
    ( /\ requests[r].op = "createWishlist"
      /\ requests[r].key # Null
      /\ requests[r].tval # Null
      /\ requests[r].resp.code # 0 )
      => idempotency[requests[r].key].status \in {"COMPLETED", "FAILED"}

\* C36: when the only update of the items of a wishlist, arrived after the
\* 201 of its create, has been answered with anything but 200, the items of
\* the wishlist are the items the create answered with
C36_FailedUpdateKeepsItems ==
  \A c, r \in DOMAIN requests :
    ( /\ IsCreate(c)
      /\ requests[c].resp.code = CREATED
      /\ requests[r].op \in UpdateOps
      /\ requests[r].target = requests[c].target
      /\ c \in requests[r].after
      /\ \A q \in DOMAIN requests \ {r} : requests[q].op \notin UpdateOps
      /\ requests[r].pc = "done"
      /\ requests[r].resp.code # OK )
      => items[requests[r].target] = requests[c].resp.body.items

\* C37: a kiosk create that passes validation and carries a key whose
\* idempotency record is COMPLETED is answered 200 with the response_data of
\* the record, whatever its owner, items and source, and writes nothing
C37_ReplayIgnoresPayload ==
  [][Arrival =>
       LET q == requests'[Len(requests')]
       IN ( /\ q.op = "createWishlist"
            /\ q.user_id # Null
            /\ ~ItemsMissing(q.items)
            /\ q.key # Null
            /\ idempotency[q.key].status = "COMPLETED" )
            => /\ q.pc = "done"
               /\ q.resp.code = OK
               /\ q.resp.body = idempotency[q.key].response_data
               /\ \E c \in DOMAIN requests :
                    /\ requests[c].key = q.key
                    /\ requests[c].resp.code = CREATED
                    /\ requests[c].resp.body = q.resp.body
               /\ wishlists' = wishlists
               /\ items' = items
               /\ idempotency' = idempotency]_vars

\* a retry with another owner, other items and another source has been
\* answered with the response of the original request, and one wishlist exists
C37_Witness ==
  \E c, r \in DOMAIN requests :
    /\ requests[c].op = "createWishlist"
    /\ requests[c].resp.code = CREATED
    /\ requests[r].op = "createWishlist"
    /\ requests[r].key = requests[c].key
    /\ requests[r].user_id # requests[c].user_id
    /\ requests[r].items # requests[c].items
    /\ requests[r].source # requests[c].source
    /\ requests[r].resp.code = OK
    /\ requests[r].resp.body = requests[c].resp.body
    /\ requests[r].resp.body.wishlist.user_id = requests[c].user_id
    /\ Len(wishlists) = 1

====
